---- MODULE Spec2Model ----
(***************************************************************************)
(* BrowserTimer native host: the URL-segment tracking tree (tracker.rs),   *)
(* the session store (session_loader.rs) and the native-messaging host     *)
(* with its dispatch loop and interrupt handler (message_handler.rs).      *)
(*                                                                         *)
(* Representation.                                                         *)
(*  - Option<T>: None is <<>>, Some(x) is <<x>>.                           *)
(*  - The nested HashMap<String, UrlNode> forest is held flat: a function  *)
(*    from segment paths (sequences of segment strings) to nodes; the      *)
(*    children of the node at path p are the nodes at p \o <<s>>.          *)
(*  - A Vec is a sequence; a session name is a sequence of one-character   *)
(*    strings, so that its length and its characters can be inspected.     *)
(*  - HashMap iteration, whose order is unspecified, visits the entries in  *)
(*    one fixed order.                                                     *)
(***************************************************************************)
EXTENDS Integers, Sequences, FiniteSets, TLC

VARIABLES
    now,        \* the wall clock sampled by Tracker::current_timestamp (ms)
    tracker,    \* NativeMessagingHost.tracker: Option<Tracker>
    disk,       \* the save directory: session files and their .json.tmp siblings
    pc,         \* position of the main thread (dispatch loop)
    mainSave,   \* main thread: the SerializedSession in hand (Option)
    hpc,        \* position of the ctrlc handler thread
    hTracker,   \* handler thread: the Tracker it took out of the slot (Option)
    hSave,      \* handler thread: the SerializedSession being saved (Option)
    response,   \* the last frame written to stdout (Option<OutgoingMessageWithId>)
    report,     \* the Vec<TrackingData> returned by the last call, if it was a report
    lastOp,     \* the last request / tracker call and its result
    gOpen,      \* ghost: whether an Active interval is running per (path, tab_id)
    gSum,       \* ghost: total length of the Active intervals so far per path
    gSession,   \* ghost: the name of the last successful Start not yet followed by
                \*        a successful Stop (Option)
    gSaved,     \* ghost: per session name saved and not deleted since, the
                \*        snapshot of its last save
    gForeign,   \* ghost: the names of the session files copied in by hand
    stdin,      \* the input stream: its frames and the number of them read
    stdout      \* the frames written to the output stream, in order

vars == <<now, tracker, disk, pc, mainSave, hpc, hTracker, hSave,
          response, report, lastOp, gOpen, gSum, gSession, gSaved, gForeign,
          stdin, stdout>>

\* The streams and the store's ghost, which only some specifications move.
streamVars == <<gSaved, gForeign, stdin, stdout>>

----------------------------------------------------------------------------
(* Bounds of the model *)

MaxTime == 2

\* The last clock value of the host specifications.
HostMaxTime == 1

\* The tab ids the requests carry.
TabIds == {1, 2}

----------------------------------------------------------------------------
(* Option and 64-bit unsigned arithmetic *)

None == <<>>
Some(x) == <<x>>

\* u64::MAX, scaled to the 30 bits a TLC integer can add without overflow.
U64_MAX == 1073741823

saturating_sub(a, b) == IF a >= b THEN a - b ELSE 0

\* Mutant: the sum wraps around at the width of the integer.
saturating_add_wrapping(a, b) == (a + b) % (U64_MAX + 1)

saturating_add(a, b) == IF a + b >= U64_MAX THEN U64_MAX ELSE a + b

----------------------------------------------------------------------------
(* TabInstance *)

TabInstance_new(tab_id, timestamp) ==
    [tab_id |-> tab_id, time_active |-> 0, last_opened |-> Some(timestamp)]

accumulate_time(inst, current_time) ==
    IF inst.last_opened # None
    THEN LET duration == saturating_sub(current_time, inst.last_opened[1])
         IN [inst EXCEPT !.last_opened = None,
                         !.time_active = saturating_add(@, duration)]
    ELSE inst

\* Mutant: time_active is not reset after the total is taken.
accumulate_and_reset_keeping(inst, relative_timestamp) ==
    LET i1 == IF inst.last_opened # None
              THEN LET duration == saturating_sub(relative_timestamp, inst.last_opened[1])
                   IN [inst EXCEPT !.last_opened = Some(relative_timestamp),
                                   !.time_active = saturating_add(@, duration)]
              ELSE inst
    IN [inst |-> i1, total |-> i1.time_active]

\* Returns the instance after the call and the returned total.
accumulate_and_reset(inst, relative_timestamp) ==
    LET i1 == IF inst.last_opened # None
              THEN LET duration == saturating_sub(relative_timestamp, inst.last_opened[1])
                   IN [inst EXCEPT !.last_opened = Some(relative_timestamp),
                                   !.time_active = saturating_add(@, duration)]
              ELSE inst
    IN [inst |-> [i1 EXCEPT !.time_active = 0], total |-> i1.time_active]

is_active(inst) == inst.last_opened # None

----------------------------------------------------------------------------
(* UrlNode *)

UrlNode_new(sub_part) ==
    [sub_part |-> sub_part, aggregate_time |-> 0, instances |-> <<>>]

\* Index of the first instance with this tab_id, 0 when there is none.
find_tab_instance(node, tab_id) ==
    LET hits == {i \in 1..Len(node.instances) : node.instances[i].tab_id = tab_id}
    IN IF hits = {} THEN 0 ELSE CHOOSE i \in hits : \A j \in hits : i <= j

\* Vec::swap_remove: the last element takes the removed element's place.
swap_remove(vec, pos) ==
    LET n == Len(vec)
    IN [i \in 1..(n - 1) |-> IF i = pos THEN vec[n] ELSE vec[i]]

\* Returns the node after the call and the removed instance (Option).
remove_tab_instance(node, tab_id) ==
    LET pos == find_tab_instance(node, tab_id)
    IN IF pos # 0
       THEN [node |-> [node EXCEPT !.instances = swap_remove(@, pos)],
             removed |-> Some(node.instances[pos])]
       ELSE [node |-> node, removed |-> None]

\* Mutant: a focus of an Active instance restarts its interval.
add_tab_instance_restart(node, tab_id, timestamp) ==
    LET pos == find_tab_instance(node, tab_id)
    IN IF pos # 0
       THEN [node EXCEPT !.instances[pos].last_opened = Some(timestamp)]
       ELSE [node EXCEPT !.instances = Append(@, TabInstance_new(tab_id, timestamp))]

\* Mutant: a focus pushes a new instance without looking the tab_id up.
add_tab_instance_pushing(node, tab_id, timestamp) ==
    [node EXCEPT !.instances = Append(@, TabInstance_new(tab_id, timestamp))]

add_tab_instance(node, tab_id, timestamp) ==
    LET pos == find_tab_instance(node, tab_id)
    IN IF pos # 0
       THEN IF node.instances[pos].last_opened = None
            THEN [node EXCEPT !.instances[pos].last_opened = Some(timestamp)]
            ELSE node
       ELSE [node EXCEPT !.instances = Append(@, TabInstance_new(tab_id, timestamp))]

RECURSIVE accumulate_instances_loop(_, _, _, _)
\* The for loop of accumulate_all_instances from index i on; acc holds the
\* instances so far, total_time and active_count.
accumulate_instances_loop(instances, current_time, i, acc) ==
    IF i > Len(instances) THEN acc
    ELSE LET r == accumulate_and_reset(instances[i], current_time)
         IN accumulate_instances_loop(instances, current_time, i + 1,
                [instances |-> Append(acc.instances, r.inst),
                 total_time |-> saturating_add(acc.total_time, r.total),
                 active_count |-> acc.active_count
                                    + (IF is_active(instances[i]) THEN 1 ELSE 0)])

\* Mutant: the sweep's total replaces aggregate_time instead of adding to it.
accumulate_all_instances_overwriting(node, current_time) ==
    LET l == accumulate_instances_loop(node.instances, current_time, 1,
                [instances |-> <<>>, total_time |-> 0, active_count |-> 0])
        agg == l.total_time
    IN [node |-> [node EXCEPT !.instances = l.instances, !.aggregate_time = agg],
        aggregate_time |-> agg,
        active_count |-> l.active_count,
        total_instances |-> Len(node.instances)]

\* Returns the node after the call and the returned triple.
accumulate_all_instances(node, current_time) ==
    LET l == accumulate_instances_loop(node.instances, current_time, 1,
                [instances |-> <<>>, total_time |-> 0, active_count |-> 0])
        agg == saturating_add(node.aggregate_time, l.total_time)
    IN [node |-> [node EXCEPT !.instances = l.instances, !.aggregate_time = agg],
        aggregate_time |-> agg,
        active_count |-> l.active_count,
        total_instances |-> Len(node.instances)]

----------------------------------------------------------------------------
(* Tracker: URL parsing and the tree *)

\* url::Url::parse on the URL strings of the model (the url crate's result):
\* ok = FALSE is Err(ParseError); host is Option<&str>; segments is the
\* Option of the path_segments() sequence.
Url_parse(url) ==
    CASE url = "https://example.com" ->
            [ok |-> TRUE, host |-> Some("example.com"), segments |-> Some(<<"">>)]
      [] url = "https://example.com/a/b" ->
            [ok |-> TRUE, host |-> Some("example.com"), segments |-> Some(<<"a", "b">>)]
      [] url = "https://example.com/blog/" ->
            [ok |-> TRUE, host |-> Some("example.com"), segments |-> Some(<<"blog", "">>)]
      [] url = "https://example.com/blog/post1" ->
            [ok |-> TRUE, host |-> Some("example.com"), segments |-> Some(<<"blog", "post1">>)]
      [] url = "mailto:" ->
            [ok |-> TRUE, host |-> None, segments |-> None]
      [] OTHER ->
            [ok |-> FALSE, host |-> None, segments |-> None]

Urls == {"", "not-a-url", "mailto:", "https://example.com",
         "https://example.com/a/b", "https://example.com/blog/"}

\* TrackerError values and Ok(()), as records of one shape.
Ok == [kind |-> "Ok", tab_id |-> 0, msg |-> ""]
InvalidUrl(msg) == [kind |-> "InvalidUrl", tab_id |-> 0, msg |-> msg]
TabNotFound(tab_id) == [kind |-> "TabNotFound", tab_id |-> tab_id, msg |-> ""]
UrlParseError(msg) == [kind |-> "UrlParseError", tab_id |-> 0, msg |-> msg]

\* Mutant: no check for the empty string before Url::parse.
parse_url_parts_unchecked(url) ==
    LET parsed == Url_parse(url) IN
    IF ~parsed.ok
    THEN [result |-> UrlParseError("relative URL without a base"), parts |-> <<>>]
    ELSE LET KeepSegment(segment) == Len(segment) > 1
             hostPart == IF parsed.host # None THEN <<parsed.host[1]>> ELSE <<>>
             segParts == IF parsed.segments # None
                         THEN SelectSeq(parsed.segments[1], KeepSegment)
                         ELSE <<>>
             parts == hostPart \o segParts
         IN IF parts = <<>>
            THEN [result |-> InvalidUrl("No parseable parts in URL: " \o url),
                  parts |-> <<>>]
            ELSE [result |-> Ok, parts |-> parts]

\* Mutant: only empty segments are filtered out.
parse_url_parts_nonempty(url) ==
    IF url = "" THEN [result |-> InvalidUrl("Empty URL"), parts |-> <<>>]
    ELSE LET parsed == Url_parse(url) IN
         IF ~parsed.ok
         THEN [result |-> UrlParseError("relative URL without a base"), parts |-> <<>>]
         ELSE LET KeepSegment(segment) == Len(segment) > 0
                  hostPart == IF parsed.host # None THEN <<parsed.host[1]>> ELSE <<>>
                  segParts == IF parsed.segments # None
                              THEN SelectSeq(parsed.segments[1], KeepSegment)
                              ELSE <<>>
                  parts == hostPart \o segParts
              IN IF parts = <<>>
                 THEN [result |-> InvalidUrl("No parseable parts in URL: " \o url),
                       parts |-> <<>>]
                 ELSE [result |-> Ok, parts |-> parts]

\* Returns the result and, when Ok, the parts.
parse_url_parts(url) ==
    IF url = "" THEN [result |-> InvalidUrl("Empty URL"), parts |-> <<>>]
    ELSE LET parsed == Url_parse(url) IN
         IF ~parsed.ok
         THEN [result |-> UrlParseError("relative URL without a base"), parts |-> <<>>]
         ELSE LET KeepSegment(segment) == Len(segment) > 1
                  hostPart == IF parsed.host # None THEN <<parsed.host[1]>> ELSE <<>>
                  segParts == IF parsed.segments # None
                              THEN SelectSeq(parsed.segments[1], KeepSegment)
                              ELSE <<>>
                  parts == hostPart \o segParts
              IN IF parts = <<>>
                 THEN [result |-> InvalidUrl("No parseable parts in URL: " \o url),
                       parts |-> <<>>]
                 ELSE [result |-> Ok, parts |-> parts]

Prefix(parts, i) == SubSeq(parts, 1, i)

\* The root after the call; the node returned is the one at url_parts.
find_or_create_node(root, url_parts) ==
    LET created == {Prefix(url_parts, i) : i \in 1..Len(url_parts)} \ DOMAIN root
    IN [p \in DOMAIN root \cup created |->
            IF p \in DOMAIN root THEN root[p] ELSE UrlNode_new(p[Len(p)])]

\* TRUE iff find_node returns Some(node), the node then being root[url_parts].
find_node(root, url_parts) ==
    /\ url_parts # <<>>
    /\ \A i \in 1..Len(url_parts) : Prefix(url_parts, i) \in DOMAIN root

\* Each track_* returns the result and the root after the call.
track_tab_focused(root, url, tab_id, timestamp) ==
    LET parsed == parse_url_parts(url) IN
    IF parsed.result # Ok THEN [result |-> parsed.result, root |-> root]
    ELSE LET root1 == find_or_create_node(root, parsed.parts)
         IN [result |-> Ok,
             root |-> [root1 EXCEPT ![parsed.parts] =
                            add_tab_instance(@, tab_id, timestamp)]]

track_tab_unfocused(root, url, tab_id, timestamp) ==
    LET parsed == parse_url_parts(url) IN
    IF parsed.result # Ok THEN [result |-> parsed.result, root |-> root]
    ELSE IF ~find_node(root, parsed.parts)
    THEN [result |-> TabNotFound(tab_id), root |-> root]
    ELSE LET node == root[parsed.parts]
             pos == find_tab_instance(node, tab_id)
         IN IF pos = 0
            THEN [result |-> TabNotFound(tab_id), root |-> root]
            ELSE [result |-> Ok,
                  root |-> [root EXCEPT ![parsed.parts].instances[pos] =
                                 accumulate_time(@, timestamp)]]

\* Mutant: the lookup creates the nodes it does not find.
track_tab_closed_creating(root, url, tab_id, timestamp) ==
    LET parsed == parse_url_parts(url) IN
    IF parsed.result # Ok THEN [result |-> parsed.result, root |-> root]
    ELSE LET root1 == find_or_create_node(root, parsed.parts)
             r == remove_tab_instance(root1[parsed.parts], tab_id)
         IN IF r.removed = None
            THEN [result |-> TabNotFound(tab_id), root |-> root1]
            ELSE LET instance == accumulate_time(r.removed[1], timestamp)
                 IN [result |-> Ok,
                     root |-> [root1 EXCEPT ![parsed.parts] =
                                 [r.node EXCEPT !.aggregate_time =
                                     saturating_add(@, instance.time_active)]]]

\* Mutant: the closed instance's time is added to every node on the path.
track_tab_closed_hierarchical(root, url, tab_id, timestamp) ==
    LET parsed == parse_url_parts(url) IN
    IF parsed.result # Ok THEN [result |-> parsed.result, root |-> root]
    ELSE IF ~find_node(root, parsed.parts)
    THEN [result |-> TabNotFound(tab_id), root |-> root]
    ELSE LET r == remove_tab_instance(root[parsed.parts], tab_id)
         IN IF r.removed = None
            THEN [result |-> TabNotFound(tab_id), root |-> root]
            ELSE LET instance == accumulate_time(r.removed[1], timestamp)
                     root1 == [root EXCEPT ![parsed.parts] = r.node]
                 IN [result |-> Ok,
                     root |-> [p \in DOMAIN root1 |->
                                 IF \E i \in 1..Len(parsed.parts) : p = Prefix(parsed.parts, i)
                                 THEN [root1[p] EXCEPT !.aggregate_time =
                                          saturating_add(@, instance.time_active)]
                                 ELSE root1[p]]]

track_tab_closed(root, url, tab_id, timestamp) ==
    LET parsed == parse_url_parts(url) IN
    IF parsed.result # Ok THEN [result |-> parsed.result, root |-> root]
    ELSE IF ~find_node(root, parsed.parts)
    THEN [result |-> TabNotFound(tab_id), root |-> root]
    ELSE LET r == remove_tab_instance(root[parsed.parts], tab_id)
         IN IF r.removed = None
            THEN [result |-> TabNotFound(tab_id), root |-> root]
            ELSE LET instance == accumulate_time(r.removed[1], timestamp)
                 IN [result |-> Ok,
                     root |-> [root EXCEPT ![parsed.parts] =
                                 [r.node EXCEPT !.aggregate_time =
                                     saturating_add(@, instance.time_active)]]]

----------------------------------------------------------------------------
(* Tracker: report *)

Children(root, prefix) ==
    {p \in DOMAIN root : Len(p) = Len(prefix) + 1 /\ Prefix(p, Len(prefix)) = prefix}

TrackingData(path, aggregate_time, total_instances, active_instances) ==
    [path |-> path, aggregate_time |-> aggregate_time,
     total_instances |-> total_instances, active_instances |-> active_instances]

RECURSIVE collect_recursive_all(_, _, _, _, _)
\* Mutant: a record is pushed for every node, whatever its aggregate_time.
collect_recursive_all(acc, current_time, path_buffer, prefix, todo) ==
    IF todo = {} THEN acc
    ELSE LET p == CHOOSE x \in todo : TRUE
             key == p[Len(p)]
             buf == IF path_buffer # "" THEN (path_buffer \o "/") \o key ELSE key
             r == accumulate_all_instances(acc.root[p], current_time)
             root1 == [acc.root EXCEPT ![p] = r.node]
             result1 == Append(acc.result,
                               TrackingData(buf, r.aggregate_time,
                                            r.total_instances, r.active_count))
             sub == collect_recursive_all([root |-> root1, result |-> result1],
                                          current_time, buf, p, Children(root1, p))
         IN collect_recursive_all(sub, current_time, path_buffer, prefix, todo \ {p})

RECURSIVE collect_recursive(_, _, _, _, _)
\* acc = [root, result]; todo = the entries of the map at `prefix` not yet
\* visited by the for loop (visited in one fixed order, the HashMap's being
\* unspecified). Returns acc after the loop.
collect_recursive(acc, current_time, path_buffer, prefix, todo) ==
    IF todo = {} THEN acc
    ELSE LET p == CHOOSE x \in todo : TRUE
             key == p[Len(p)]
             buf == IF path_buffer # "" THEN (path_buffer \o "/") \o key ELSE key
             r == accumulate_all_instances(acc.root[p], current_time)
             root1 == [acc.root EXCEPT ![p] = r.node]
             result1 == IF r.aggregate_time > 0
                        THEN Append(acc.result,
                                    TrackingData(buf, r.aggregate_time,
                                                 r.total_instances, r.active_count))
                        ELSE acc.result
             sub == collect_recursive([root |-> root1, result |-> result1],
                                      current_time, buf, p, Children(root1, p))
         IN collect_recursive(sub, current_time, path_buffer, prefix, todo \ {p})

\* Returns the root after the sweep and the report.
collect_tracking_data(root, current_time) ==
    collect_recursive([root |-> root, result |-> <<>>], current_time, "", <<>>,
                      Children(root, <<>>))

get_tracking_data(root, current_time) == collect_tracking_data(root, current_time)

----------------------------------------------------------------------------
(* Tracker: snapshots *)

RECURSIVE update_node_times(_, _, _)
RECURSIVE update_children_times(_, _, _)
\* The root after update_node_times on the node at path p.
update_node_times(root, p, current_time) ==
    LET r == accumulate_all_instances(root[p], current_time)
        root1 == [root EXCEPT ![p] = r.node]
    IN update_children_times(root1, Children(root1, p), current_time)

\* The for loop over node.children.values_mut().
update_children_times(root, todo, current_time) ==
    IF todo = {} THEN root
    ELSE LET c == CHOOSE x \in todo : TRUE
         IN update_children_times(update_node_times(root, c, current_time),
                                  todo \ {c}, current_time)

RECURSIVE SerializedUrlNode_from(_, _)
RECURSIVE SerializedUrlNode_from_children(_, _)
\* The serialized subtree of the node at path p, flat like the tree.
SerializedUrlNode_from(root, p) ==
    (p :> [sub_part |-> root[p].sub_part,
           aggregate_time |-> root[p].aggregate_time,
           instances |-> Some(root[p].instances)])
    @@ SerializedUrlNode_from_children(root, Children(root, p))

SerializedUrlNode_from_children(root, todo) ==
    IF todo = {} THEN <<>>
    ELSE LET c == CHOOSE x \in todo : TRUE
         IN SerializedUrlNode_from(root, c)
            @@ SerializedUrlNode_from_children(root, todo \ {c})

RECURSIVE without_instances(_, _)
RECURSIVE without_instances_children(_, _)
without_instances(root, p) ==
    (p :> [sub_part |-> root[p].sub_part,
           aggregate_time |-> root[p].aggregate_time,
           instances |-> None])
    @@ without_instances_children(root, Children(root, p))

without_instances_children(root, todo) ==
    IF todo = {} THEN <<>>
    ELSE LET c == CHOOSE x \in todo : TRUE
         IN without_instances(root, c)
            @@ without_instances_children(root, todo \ {c})

RECURSIVE serialize_with_tabs_loop(_, _, _)
\* acc = [root, data]; todo = the entries of self.root not yet visited.
serialize_with_tabs_loop(acc, todo, current_time) ==
    IF todo = {} THEN acc
    ELSE LET p == CHOOSE x \in todo : TRUE
             root1 == update_node_times(acc.root, p, current_time)
         IN serialize_with_tabs_loop(
                [root |-> root1, data |-> SerializedUrlNode_from(root1, p) @@ acc.data],
                todo \ {p}, current_time)

serialize_with_tabs(root, current_time) ==
    serialize_with_tabs_loop([root |-> root, data |-> <<>>], Children(root, <<>>),
                             current_time)

RECURSIVE serialize_without_tabs_loop(_, _, _)
serialize_without_tabs_loop(acc, todo, current_time) ==
    IF todo = {} THEN acc
    ELSE LET p == CHOOSE x \in todo : TRUE
             root1 == update_node_times(acc.root, p, current_time)
         IN serialize_without_tabs_loop(
                [root |-> root1, data |-> without_instances(root1, p) @@ acc.data],
                todo \ {p}, current_time)

serialize_without_tabs(root, current_time) ==
    serialize_without_tabs_loop([root |-> root, data |-> <<>>], Children(root, <<>>),
                                current_time)

\* The SerializedSession built from the swept tree and its data r.
SerializedSession(t, r) ==
    [tracker |-> [t EXCEPT !.root = r.root],
     session |-> [session_name |-> t.session_name, data |-> r.data]]

\* Returns the tracker after the sweep and the SerializedSession.
serialize_session(t, include_tabs, current_time) ==
    SerializedSession(t, IF include_tabs
                         THEN serialize_with_tabs(t.root, current_time)
                         ELSE serialize_without_tabs(t.root, current_time))

\* Mutant: the instances are discarded whatever fresh_session says.
into_url_node_discarding(snode, fresh_session) ==
    [sub_part |-> snode.sub_part,
     aggregate_time |-> snode.aggregate_time,
     instances |-> <<>>]

\* The UrlNode of one SerializedUrlNode; children are converted alike.
into_url_node(snode, fresh_session) ==
    [sub_part |-> snode.sub_part,
     aggregate_time |-> snode.aggregate_time,
     instances |-> IF fresh_session THEN <<>>
                   ELSE IF snode.instances = None THEN <<>> ELSE snode.instances[1]]

Tracker_new(session_name) == [session_name |-> session_name, root |-> <<>>]

\* Mutant: fresh_session is not handed down to the children.
from_serialized_fresh_top_only(session_name, data, fresh_session) ==
    [session_name |-> session_name,
     root |-> [p \in DOMAIN data |->
                 into_url_node(data[p], fresh_session /\ Len(p) = 1)]]

from_serialized(session_name, data, fresh_session) ==
    [session_name |-> session_name,
     root |-> [p \in DOMAIN data |-> into_url_node(data[p], fresh_session)]]

----------------------------------------------------------------------------
(* Session store: one file per session name, written through a .json.tmp   *)
(* sibling. disk.files and disk.tmp map the names present to file contents. *)

\* serde_json::to_string of a SerializedSession: `instances` is skipped when
\* None (skip_serializing_if), so a pruned node has no such field.
to_json(session) ==
    [kind |-> "json",
     session_name |-> session.session_name,
     data |-> [p \in DOMAIN session.data |->
                 IF session.data[p].instances = None
                 THEN [sub_part |-> session.data[p].sub_part,
                       aggregate_time |-> session.data[p].aggregate_time]
                 ELSE [sub_part |-> session.data[p].sub_part,
                       aggregate_time |-> session.data[p].aggregate_time,
                       instances |-> session.data[p].instances[1]]]]

\* serde_json::from_str: a missing `instances` field is None.
from_json(content) ==
    [session_name |-> content.session_name,
     data |-> [p \in DOMAIN content.data |->
                 [sub_part |-> content.data[p].sub_part,
                  aggregate_time |-> content.data[p].aggregate_time,
                  instances |-> IF "instances" \in DOMAIN content.data[p]
                                THEN Some(content.data[p].instances)
                                ELSE None]]]

\* A file cut off while being written: created (truncated) or partly written.
PartialFile == [kind |-> "partial"]

\* A file whose bytes are no JSON document; size is its length in bytes.
GarbledFile(size) == [kind |-> "garbled", size |-> size]

Remove(f, k) == [x \in DOMAIN f \ {k} |-> f[x]]

Put(f, k, v) == [x \in DOMAIN f \cup {k} |-> IF x = k THEN v ELSE f[x]]

\* PersistenceError values and Ok, with the text Display gives them.
IoError == "IO error: os error"
JsonError == "JSON serialization error"

RECURSIVE Digits(_)
\* The number of characters of an unsigned integer in JSON.
Digits(n) == IF n < 10 THEN 1 ELSE 1 + Digits(n \div 10)

\* {"tab_id":N,"time_active":N,"last_opened":N or null}
json_instance_len(inst) ==
    41 + Digits(inst.tab_id) + Digits(inst.time_active)
       + (IF inst.last_opened = None THEN 4 ELSE Digits(inst.last_opened[1]))

RECURSIVE json_instances_len(_)
\* The elements of "instances", separated by commas.
json_instances_len(instances) ==
    IF instances = <<>> THEN 0
    ELSE json_instance_len(Head(instances))
         + (IF Tail(instances) = <<>> THEN 0 ELSE 1 + json_instances_len(Tail(instances)))

RECURSIVE json_node_len(_, _)
RECURSIVE json_map_len(_, _)
\* {"sub_part":"S","aggregate_time":N,"instances":[..],"children":{..}}, the
\* instances field left out when it is None.
json_node_len(data, p) ==
    47 + Len(data[p].sub_part) + Digits(data[p].aggregate_time)
       + (IF "instances" \in DOMAIN data[p]
          THEN 15 + json_instances_len(data[p].instances) ELSE 0)
       + json_map_len(data, Children(data, p))

\* The entries "key":node of a map, separated by commas.
json_map_len(data, todo) ==
    IF todo = {} THEN 0
    ELSE LET c == CHOOSE x \in todo : TRUE
         IN (3 + Len(c[Len(c)]) + json_node_len(data, c))
            + (IF todo \ {c} = {} THEN 0 ELSE 1 + json_map_len(data, todo \ {c}))

\* The length in bytes of {"session_name":"NAME","data":{..}}.
json_len(content) ==
    29 + Len(content.session_name) + json_map_len(content.data, Children(content.data, <<>>))

file_len(content) ==
    CASE content.kind = "json" -> json_len(content)
      [] content.kind = "garbled" -> content.size
      [] OTHER -> 0

\* write_all from offset 0 onto a file that holds old: the new bytes replace
\* the first bytes of the file, and what lies beyond them stays.
Overlay(old, new) ==
    IF old = PartialFile \/ old = new THEN new
    ELSE IF file_len(new) >= file_len(old) THEN new
    ELSE GarbledFile(file_len(old))

\* The file handle save_session holds, per thread: where the file it opened
\* is now ("tmp": still the .json.tmp entry; "file": renamed to the session
\* file; "gone": replaced by a later rename), or closed.
Closed == [at |-> "closed", name |-> <<>>]

\* The steps of save_session on the disk, made by thread who.
\* File::create: the .json.tmp entry is created, or truncated when present.
create_tmp(d, who, name) ==
    [d EXCEPT !.tmp = Put(@, name, PartialFile),
              !.fd = [@ EXCEPT ![who] = [at |-> "tmp", name |-> name]]]

\* write_all, sync_all and the drop of the handle.
write_tmp(d, who, name, session) ==
    LET at == d.fd[who].at IN
    [d EXCEPT !.tmp = IF at = "tmp" THEN Put(@, name, Overlay(@[name], to_json(session)))
                      ELSE @,
              !.files = IF at = "file"
                        THEN Put(@, name, Overlay(@[name], to_json(session)))
                        ELSE @,
              !.fd = [@ EXCEPT ![who] = Closed]]

\* fs::rename: fails when the .json.tmp entry is not there; handles open on
\* the renamed file follow it, handles open on the replaced file lose it.
rename_tmp(d, name) ==
    IF name \notin DOMAIN d.tmp
    THEN [disk |-> d, err |-> Some(IoError)]
    ELSE [disk |->
            [d EXCEPT !.files = Put(@, name, d.tmp[name]),
                      !.tmp = Remove(@, name),
                      !.fd = [w \in DOMAIN d.fd |->
                                IF d.fd[w].name # name THEN d.fd[w]
                                ELSE IF d.fd[w].at = "tmp"
                                THEN [d.fd[w] EXCEPT !.at = "file"]
                                ELSE IF d.fd[w].at = "file"
                                THEN [d.fd[w] EXCEPT !.at = "gone"]
                                ELSE d.fd[w]]],
          err |-> None]

\* The outcomes of the model's saves.
SaveOutcomes == {"ok", "create_failed", "write_failed"}

\* save_session run by the main thread to its end or to the I/O call that
\* fails. Returns the disk after the call and the error text (Option).
save_session(d, session, outcome) ==
    LET name == session.session_name
        created == create_tmp(d, "main", name)
    IN
    CASE outcome = "create_failed" -> [disk |-> d, err |-> Some(IoError)]
      [] outcome = "write_failed" ->
            [disk |-> [created EXCEPT !.fd = [@ EXCEPT !["main"] = Closed]],
             err |-> Some(IoError)]
      [] OTHER -> rename_tmp(write_tmp(created, "main", name, session), name)

session_exists(d, name) == name \in DOMAIN d.files

\* The text of PersistenceError::SessionNotFound.
SessionNotFound == "Session not found"

\* Mutant: the session_name of the file is not compared with the name asked for.
load_session_any_name(d, name) ==
    IF name \notin DOMAIN d.files
    THEN [err |-> Some(SessionNotFound), session |-> None]
    ELSE IF d.files[name].kind # "json"
    THEN [err |-> Some(JsonError), session |-> None]
    ELSE [err |-> None, session |-> Some(from_json(d.files[name]))]

\* Returns the error text (Option) and, without error, the session.
load_session(d, name) ==
    IF name \notin DOMAIN d.files
    THEN [err |-> Some(SessionNotFound), session |-> None]
    ELSE IF d.files[name].kind # "json"
    THEN [err |-> Some(JsonError), session |-> None]
    ELSE LET session == from_json(d.files[name]) IN
         IF session.session_name # name
         THEN [err |-> Some(JsonError), session |-> None]
         ELSE [err |-> None, session |-> Some(session)]

\* delete_session: returns the disk after the call and the error text (Option).
delete_session(d, name) ==
    IF name \notin DOMAIN d.files
    THEN [disk |-> d, err |-> Some(SessionNotFound)]
    ELSE [disk |-> [d EXCEPT !.files = Remove(@, name)], err |-> None]

\* Paths in the save directory are sequences of characters.
DotJson == <<".", "j", "s", "o", "n">>

DotTmp == <<".", "t", "m", "p">>

BackupsDir == <<"b", "a", "c", "k", "u", "p", "s">>

\* The index of the last "." of a file name, 0 when it has none.
LastDot(f) ==
    IF \E i \in 1..Len(f) : f[i] = "."
    THEN CHOOSE i \in 1..Len(f) : f[i] = "." /\ \A j \in (i + 1)..Len(f) : f[j] # "."
    ELSE 0

\* Path::extension: what follows the last ".", none when the name has no "."
\* or only a leading one.
extension(f) == IF LastDot(f) <= 1 THEN None ELSE Some(SubSeq(f, LastDot(f) + 1, Len(f)))

\* Path::file_stem: the name without its extension.
file_stem(f) == IF LastDot(f) <= 1 THEN f ELSE SubSeq(f, 1, LastDot(f) - 1)

\* session_file_path: the file of a session in the save directory.
session_file_path(name) == name \o DotJson

\* Path::with_extension.
with_extension(f, ext) == (file_stem(f) \o <<".">>) \o ext

\* temp_file_path of save_session.
temp_file_path(name) == with_extension(session_file_path(name), Tail(DotJson) \o DotTmp)

\* fs::read_dir of the save directory: the session files, the temporary files
\* and the backups directory when backup_session has created it.
read_dir(d) ==
    {[path |-> session_file_path(n), is_file |-> TRUE] : n \in DOMAIN d.files}
    \cup {[path |-> temp_file_path(n), is_file |-> TRUE] : n \in DOMAIN d.tmp}
    \cup (IF d.backups = None THEN {} ELSE {[path |-> BackupsDir, is_file |-> FALSE]})

\* The byte of a character (the characters the model's names are made of).
CharCode(c) ==
    CASE c = "." -> 46 [] c = "/" -> 47 [] c = "B" -> 66
      [] c = "a" -> 97 [] c = "b" -> 98 [] c = "e" -> 101 [] c = "j" -> 106
      [] c = "k" -> 107 [] c = "m" -> 109 [] c = "n" -> 110 [] c = "o" -> 111
      [] c = "p" -> 112 [] c = "r" -> 114 [] c = "s" -> 115 [] c = "t" -> 116
      [] c = "u" -> 117 [] c = "w" -> 119 [] OTHER -> 0

RECURSIVE str_lt(_, _)
\* Ord of String: byte-wise lexicographic order.
str_lt(a, b) ==
    IF b = <<>> THEN FALSE
    ELSE IF a = <<>> THEN TRUE
    ELSE IF Head(a) = Head(b) THEN str_lt(Tail(a), Tail(b))
    ELSE CharCode(Head(a)) < CharCode(Head(b))

RECURSIVE insert_sorted(_, _)
insert_sorted(sorted, x) ==
    IF sorted = <<>> THEN <<x>>
    ELSE IF str_lt(x, Head(sorted)) THEN <<x>> \o sorted
    ELSE <<Head(sorted)>> \o insert_sorted(Tail(sorted), x)

RECURSIVE sort_unstable(_)
\* sessions.sort_unstable(): equal strings are the same value, so the order
\* of the result is determined.
sort_unstable(v) == IF v = <<>> THEN <<>> ELSE insert_sorted(sort_unstable(Tail(v)), Head(v))

RECURSIVE list_sessions_loop(_, _)
\* The for loop of list_sessions over the directory entries, in one order.
list_sessions_loop(sessions, entries) ==
    IF entries = {} THEN sessions
    ELSE LET entry == CHOOSE e \in entries : TRUE IN
         list_sessions_loop(
             IF entry.is_file /\ extension(entry.path) = Some(Tail(DotJson))
             THEN Append(sessions, file_stem(entry.path)) ELSE sessions,
             entries \ {entry})

\* list_sessions on an existing save directory.
list_sessions(d) == sort_unstable(list_sessions_loop(<<>>, read_dir(d)))

\* backup_session at clock value time: the session file is copied into the
\* backups directory, which is created when missing. Returns the disk and
\* the error text (Option).
backup_session(d, name, time) ==
    IF name \notin DOMAIN d.files
    THEN [disk |-> d, err |-> Some(SessionNotFound)]
    ELSE [disk |-> [d EXCEPT !.backups =
                      Some(Put(IF @ = None THEN <<>> ELSE @[1], <<name, time>>,
                               d.files[name]))],
          err |-> None]

----------------------------------------------------------------------------
(* Native messaging host: responses and handlers *)

TRACKER_NOT_STARTED == "Tracker not started"

OutgoingMessage_success(data) == [success |-> TRUE, data |-> data, error |-> None]

OutgoingMessage_error(error) == [success |-> FALSE, data |-> None, error |-> Some(error)]

\* Mutant: every response carries the id 0.
with_id_zero(message, id) ==
    [success |-> message.success, data |-> message.data, error |-> message.error,
     id |-> 0]

with_id(message, id) ==
    [success |-> message.success, data |-> message.data, error |-> message.error,
     id |-> id]

\* Display of a u32 tab id.
U32ToString(n) == CASE n = 1 -> "1" [] n = 2 -> "2" [] n = 3 -> "3" [] OTHER -> "0"

\* TrackerError's Display.
TrackerError_to_string(e) ==
    CASE e.kind = "InvalidUrl" -> "Invalid URL: " \o e.msg
      [] e.kind = "TabNotFound" -> ("Tab " \o U32ToString(e.tab_id)) \o " not found"
      [] OTHER -> "URL parsing error: " \o e.msg

MaxSessionNameLen == 100

\* The characters verify_session_name rejects; "NUL" stands for '\\0'.
InvalidChars == {"/", "\\", ":", "*", "?", "\"", "<", ">", "|", "NUL"}

\* The bytes of a character in UTF-8: the model's names are made of ASCII
\* characters, one byte each, and of "é", two bytes.
len_utf8(c) == IF c = "é" THEN 2 ELSE 1

\* str::len: the length of the name in bytes, its one-byte characters and
\* twice its two-byte characters.
str_len(name) ==
    Cardinality({i \in 1..Len(name) : len_utf8(name[i]) = 1})
    + 2 * Cardinality({i \in 1..Len(name) : len_utf8(name[i]) = 2})

\* Returns the error text (Option).
verify_session_name(session_name) ==
    IF session_name = <<>>
    THEN Some("Invalid session name: Session name cannot be empty")
    ELSE IF str_len(session_name) > MaxSessionNameLen
    THEN Some("Invalid session name: Session name is too long. Allowed length: 100 characters")
    ELSE IF \E i \in 1..Len(session_name) : session_name[i] \in InvalidChars
    THEN Some("Invalid session name: Session name contains invalid characters")
    ELSE None

\* Returns the error text (Option) and, without error, the Tracker.
\* Mutant: a Start loads the session as a fresh one, without its instances.
create_or_load_tracker_fresh(d, session_name) ==
    IF session_exists(d, session_name)
    THEN LET l == load_session(d, session_name) IN
         IF l.err # None THEN [err |-> l.err, tracker |-> None]
         ELSE [err |-> None,
               tracker |-> Some(from_serialized(l.session[1].session_name,
                                                l.session[1].data, TRUE))]
    ELSE [err |-> None, tracker |-> Some(Tracker_new(session_name))]

\* Mutant: a Start never loads, it always creates the tracker empty.
create_or_load_tracker_new(d, session_name) ==
    [err |-> None, tracker |-> Some(Tracker_new(session_name))]

create_or_load_tracker(d, session_name) ==
    IF session_exists(d, session_name)
    THEN LET l == load_session(d, session_name) IN
         IF l.err # None THEN [err |-> l.err, tracker |-> None]
         ELSE [err |-> None,
               tracker |-> Some(from_serialized(l.session[1].session_name,
                                                l.session[1].data, FALSE))]
    ELSE [err |-> None, tracker |-> Some(Tracker_new(session_name))]

\* Mutant: no check that the slot is empty.
try_start_action_unchecked(slot, d, session_name) ==
    IF verify_session_name(session_name) # None
    THEN [err |-> verify_session_name(session_name), slot |-> slot]
    ELSE LET c == create_or_load_tracker(d, session_name) IN
         IF c.err # None THEN [err |-> c.err, slot |-> slot]
         ELSE [err |-> None, slot |-> c.tracker]

\* Returns the error text (Option) and the slot after the call.
try_start_action(slot, d, session_name) ==
    IF slot # None THEN [err |-> Some("Tracker already started"), slot |-> slot]
    ELSE IF verify_session_name(session_name) # None
    THEN [err |-> verify_session_name(session_name), slot |-> slot]
    ELSE LET c == create_or_load_tracker(d, session_name) IN
         IF c.err # None THEN [err |-> c.err, slot |-> slot]
         ELSE [err |-> None, slot |-> c.tracker]

\* Each handler returns the OutgoingMessage and the state after the call.
handle_start_action(slot, d, session_name) ==
    LET r == try_start_action(slot, d, session_name) IN
    [message |-> IF r.err = None THEN OutgoingMessage_success(None)
                 ELSE OutgoingMessage_error(r.err[1]),
     slot |-> r.slot]

\* Mutant: the slot is emptied whatever the save returned.
stop_saved_dropping(ser, sv) ==
    IF sv.err = None
    THEN [message |-> OutgoingMessage_success(None), slot |-> None, disk |-> sv.disk]
    ELSE [message |-> OutgoingMessage_error(sv.err[1]), slot |-> None, disk |-> sv.disk]

\* The match on the result of save_session in handle_stop_action: ser is the
\* result of serialize_session, sv that of save_session.
stop_saved(ser, sv) ==
    IF sv.err = None
    THEN [message |-> OutgoingMessage_success(None), slot |-> None, disk |-> sv.disk]
    ELSE [message |-> OutgoingMessage_error(sv.err[1]), slot |-> Some(ser.tracker),
          disk |-> sv.disk]

\* save_session(&...) on the serialized session, then the match.
stop_save(ser, d, outcome) == stop_saved(ser, save_session(d, ser.session, outcome))

\* Mutant: Stop saves the snapshot with its instances.
handle_stop_action_full(slot, d, current_time, outcome) ==
    IF slot # None
    THEN stop_save(serialize_session(slot[1], TRUE, current_time), d, outcome)
    ELSE [message |-> OutgoingMessage_error(TRACKER_NOT_STARTED), slot |-> slot,
          disk |-> d]

handle_stop_action(slot, d, current_time, outcome) ==
    IF slot # None
    THEN stop_save(serialize_session(slot[1], FALSE, current_time), d, outcome)
    ELSE [message |-> OutgoingMessage_error(TRACKER_NOT_STARTED), slot |-> slot,
          disk |-> d]

\* Mutant: without a tracker the request fails like the tracker's requests.
handle_get_active_action_strict(slot) ==
    IF slot # None
    THEN OutgoingMessage_success(Some([session_name |-> slot[1].session_name]))
    ELSE OutgoingMessage_error(TRACKER_NOT_STARTED)

handle_get_active_action(slot) ==
    IF slot # None
    THEN OutgoingMessage_success(Some([session_name |-> slot[1].session_name]))
    ELSE OutgoingMessage_success(None)

\* with_tracker_mut on the value f returned: the Ok value is dropped.
with_tracker_mut(slot, f_result) ==
    IF slot # None
    THEN IF f_result.err = None THEN OutgoingMessage_success(None)
         ELSE OutgoingMessage_error(f_result.err[1])
    ELSE OutgoingMessage_error(TRACKER_NOT_STARTED)

\* map_success never applies its closure: it keeps the message's own data.
map_success(message) ==
    IF message.data # None THEN OutgoingMessage_success(Some(message.data[1]))
    ELSE message

\* Returns the message, the slot after the call and what the closure computed.
handle_get_data_action(slot, current_time) ==
    IF slot # None
    THEN LET r == collect_tracking_data(slot[1].root, current_time) IN
         [message |-> map_success(with_tracker_mut(slot, [err |-> None, ok |-> r.result])),
          slot |-> Some([slot[1] EXCEPT !.root = r.root]),
          report |-> Some(r.result)]
    ELSE [message |-> map_success(with_tracker_mut(slot, [err |-> None, ok |-> <<>>])),
          slot |-> slot, report |-> None]

handle_tab_operation(slot, operation, url, tab_id, current_time) ==
    IF slot # None
    THEN LET r == CASE operation = "Focus" ->
                        track_tab_focused(slot[1].root, url, tab_id, current_time)
                   [] operation = "Unfocus" ->
                        track_tab_unfocused(slot[1].root, url, tab_id, current_time)
                   [] OTHER ->
                        track_tab_closed(slot[1].root, url, tab_id, current_time)
         IN [message |-> IF r.result = Ok THEN OutgoingMessage_success(None)
                         ELSE OutgoingMessage_error(TrackerError_to_string(r.result)),
             slot |-> Some([slot[1] EXCEPT !.root = r.root]),
             result |-> r.result]
    ELSE [message |-> OutgoingMessage_error(TRACKER_NOT_STARTED), slot |-> slot,
          result |-> Ok]

handle_session_deletion(d, session_name) ==
    LET r == delete_session(d, session_name) IN
    [message |-> IF r.err = None THEN OutgoingMessage_success(None)
                 ELSE OutgoingMessage_error(r.err[1]),
     disk |-> r.disk]

handle_session_listing(d) ==
    OutgoingMessage_success(Some([sessions |-> list_sessions(d)]))

\* A decoded MessageWithId: the id and the IncomingMessage with its data.
Request(id, action, url, tab_id, session_name) ==
    [id |-> id, action |-> action, url |-> url, tab_id |-> tab_id,
     session_name |-> session_name]

\* What one arm of handle_message leaves: the response, the slot and the disk.
Handled(message, slot, d) == [message |-> message, slot |-> slot, disk |-> d]

\* An arm whose handler returns the response and the slot (r) and leaves the disk.
HandledSlot(r, d) == Handled(r.message, r.slot, d)

\* An arm whose handler returns the response and the disk (r) and leaves the slot.
HandledDisk(r, slot) == Handled(r.message, slot, r.disk)

\* handle_message: the match on the IncomingMessage. outcome is the outcome
\* of the save a Stop makes.
handle_message(slot, d, message, current_time, outcome) ==
    CASE message.action = "TabFocused" ->
            HandledSlot(handle_tab_operation(slot, "Focus", message.url, message.tab_id,
                                             current_time), d)
      [] message.action = "TabUnfocused" ->
            HandledSlot(handle_tab_operation(slot, "Unfocus", message.url, message.tab_id,
                                             current_time), d)
      [] message.action = "TabClosed" ->
            HandledSlot(handle_tab_operation(slot, "Close", message.url, message.tab_id,
                                             current_time), d)
      [] message.action = "Start" ->
            HandledSlot(handle_start_action(slot, d, message.session_name), d)
      [] message.action = "Stop" -> handle_stop_action(slot, d, current_time, outcome)
      [] message.action = "GetActive" -> Handled(handle_get_active_action(slot), slot, d)
      [] message.action = "GetData" ->
            HandledSlot(handle_get_data_action(slot, current_time), d)
      [] message.action = "GetSessions" -> Handled(handle_session_listing(d), slot, d)
      [] message.action = "DeleteSession" ->
            HandledDisk(handle_session_deletion(d, message.session_name), slot)
      [] OTHER -> Handled(OutgoingMessage_success(None), slot, d)

\* NativeMessagingHost::MAX_MESSAGE_SIZE.
MAX_MESSAGE_SIZE == 1024 * 1024

\* What read_message finds at the end of the stream: no byte of a prefix.
EndOfStream == [prefix |-> 0, len |-> 0, avail |-> 0, body |-> None]

\* Mutant: a payload cut short is reported like a payload that does not
\* decode, not as the end of the input.
read_message_short_is_error(input) ==
    LET frame == IF input.pos < Len(input.frames) THEN input.frames[input.pos + 1]
                 ELSE EndOfStream
    IN
    IF frame.prefix < 4
    THEN [kind |-> "UnexpectedEof", length |-> 0, message |-> None, consumed |-> 0]
    ELSE IF frame.len > MAX_MESSAGE_SIZE
    THEN [kind |-> "MessageTooLarge", length |-> frame.len, message |-> None,
          consumed |-> 0]
    ELSE IF frame.len = 0
    THEN [kind |-> "InvalidLength", length |-> frame.len, message |-> None,
          consumed |-> 0]
    ELSE IF frame.avail < frame.len
    THEN [kind |-> "Json", length |-> frame.len, message |-> None,
          consumed |-> frame.avail]
    ELSE IF frame.body = None
    THEN [kind |-> "Json", length |-> frame.len, message |-> None,
          consumed |-> frame.len]
    ELSE [kind |-> "Ok", length |-> frame.len, message |-> frame.body,
          consumed |-> frame.len]

\* Mutant: a declared length of MAX_MESSAGE_SIZE is refused as well.
read_message_exclusive(input) ==
    LET frame == IF input.pos < Len(input.frames) THEN input.frames[input.pos + 1]
                 ELSE EndOfStream
    IN
    IF frame.prefix < 4
    THEN [kind |-> "UnexpectedEof", length |-> 0, message |-> None, consumed |-> 0]
    ELSE IF frame.len >= MAX_MESSAGE_SIZE
    THEN [kind |-> "MessageTooLarge", length |-> frame.len, message |-> None,
          consumed |-> 0]
    ELSE IF frame.len = 0
    THEN [kind |-> "InvalidLength", length |-> frame.len, message |-> None,
          consumed |-> 0]
    ELSE IF frame.avail < frame.len
    THEN [kind |-> "UnexpectedEof", length |-> frame.len, message |-> None,
          consumed |-> frame.avail]
    ELSE IF frame.body = None
    THEN [kind |-> "Json", length |-> frame.len, message |-> None,
          consumed |-> frame.len]
    ELSE [kind |-> "Ok", length |-> frame.len, message |-> frame.body,
          consumed |-> frame.len]

\* read_message on the input stream. A frame of the stream has `prefix` bytes
\* of its length prefix (4 when whole), the declared length `len`, `avail`
\* payload bytes before the stream ends, and the MessageWithId its payload
\* decodes to (None when it decodes to none). Returns the kind of the result,
\* the declared length, the message and the payload bytes consumed.
read_message(input) ==
    LET frame == IF input.pos < Len(input.frames) THEN input.frames[input.pos + 1]
                 ELSE EndOfStream
    IN
    IF frame.prefix < 4
    THEN [kind |-> "UnexpectedEof", length |-> 0, message |-> None, consumed |-> 0]
    ELSE IF frame.len > MAX_MESSAGE_SIZE
    THEN [kind |-> "MessageTooLarge", length |-> frame.len, message |-> None,
          consumed |-> 0]
    ELSE IF frame.len = 0
    THEN [kind |-> "InvalidLength", length |-> frame.len, message |-> None,
          consumed |-> 0]
    ELSE IF frame.avail < frame.len
    THEN [kind |-> "UnexpectedEof", length |-> frame.len, message |-> None,
          consumed |-> frame.avail]
    ELSE IF frame.body = None
    THEN [kind |-> "Json", length |-> frame.len, message |-> None,
          consumed |-> frame.len]
    ELSE [kind |-> "Ok", length |-> frame.len, message |-> frame.body,
          consumed |-> frame.len]

\* NativeMessagingError's Display for the errors of read_message.
NativeMessagingError_to_string(r) ==
    CASE r.kind = "MessageTooLarge" -> ("Message too large: " \o ToString(r.length)) \o " bytes"
      [] r.kind = "InvalidLength" -> "Invalid message length: " \o ToString(r.length)
      [] r.kind = "Json" -> "JSON serialization error: expected value"
      [] OTHER -> "IO error: failed to fill whole buffer"


----------------------------------------------------------------------------
(* Ghost accounting of Active intervals: kept from the calls, their results *)
(* and the clock alone, never from the tree. An Active interval of          *)
(* (path, tab_id) runs from a successful focus made while none is running   *)
(* to the next successful unfocus or close; gSum[path] is the total length  *)
(* of the intervals at that path, counted as the clock advances.            *)

UrlParts(url) == parse_url_parts(url).parts

AllPaths ==
    UNION {{Prefix(UrlParts(u), i) : i \in 1..Len(UrlParts(u))} : u \in Urls}

GhostInit ==
    /\ gOpen = [k \in AllPaths \X TabIds |-> FALSE]
    /\ gSum = [p \in AllPaths |-> 0]

GhostFocus(url, tab_id, result) ==
    /\ gOpen' = IF result = Ok
                THEN [gOpen EXCEPT ![<<UrlParts(url), tab_id>>] = TRUE] ELSE gOpen
    /\ gSum' = gSum

GhostEnd(url, tab_id, result) ==
    /\ gOpen' = IF result = Ok
                THEN [gOpen EXCEPT ![<<UrlParts(url), tab_id>>] = FALSE] ELSE gOpen
    /\ gSum' = gSum

\* The clock advances by d: every running interval grows by d.
GhostTick(d) ==
    /\ gSum' = [p \in AllPaths |->
                    gSum[p] + d * Cardinality({t \in TabIds : gOpen[<<p, t>>]})]
    /\ gOpen' = gOpen

----------------------------------------------------------------------------
(* The Tracker alone: calls on one Tracker, as the unit tests make them *)

NameTest == <<"t", "e", "s", "t">>

NoOp == [op |-> "none", url |-> "", tab_id |-> 0, name |-> <<>>, result |-> Ok]

EmptyDisk ==
    [files |-> <<>>, tmp |-> <<>>, fd |-> [main |-> Closed, handler |-> Closed],
     backups |-> None]

\* No input stream is modelled: the requests arrive as the actions' inputs.
NoInput == [frames |-> <<>>, pos |-> 0, consumed |-> 0]

hostVars == <<disk, pc, hpc, hTracker, hSave, response, gSession, streamVars>>

Init ==
    /\ now = 0
    /\ tracker = Some(Tracker_new(NameTest))
    /\ disk = EmptyDisk
    /\ pc = "api"
    /\ mainSave = None
    /\ hpc = "none"
    /\ hTracker = None
    /\ hSave = None
    /\ response = None
    /\ report = None
    /\ lastOp = NoOp
    /\ gSession = None
    /\ gSaved = <<>>
    /\ gForeign = {}
    /\ stdin = NoInput
    /\ stdout = <<>>
    /\ GhostInit

Tick ==
    /\ now < MaxTime
    /\ now' = now + 1
    /\ lastOp' = [NoOp EXCEPT !.op = "tick"]
    /\ GhostTick(1)
    /\ report' = None
    /\ mainSave' = None
    /\ UNCHANGED tracker
    /\ UNCHANGED hostVars

TrackTabFocused(url, tab_id) ==
    LET r == track_tab_focused(tracker[1].root, url, tab_id, now) IN
    /\ tracker' = Some([tracker[1] EXCEPT !.root = r.root])
    /\ lastOp' = [NoOp EXCEPT !.op = "focus", !.url = url, !.tab_id = tab_id,
                              !.result = r.result]
    /\ GhostFocus(url, tab_id, r.result)
    /\ report' = None
    /\ mainSave' = None
    /\ UNCHANGED now
    /\ UNCHANGED hostVars

TrackTabUnfocused(url, tab_id) ==
    LET r == track_tab_unfocused(tracker[1].root, url, tab_id, now) IN
    /\ tracker' = Some([tracker[1] EXCEPT !.root = r.root])
    /\ lastOp' = [NoOp EXCEPT !.op = "unfocus", !.url = url, !.tab_id = tab_id,
                              !.result = r.result]
    /\ GhostEnd(url, tab_id, r.result)
    /\ report' = None
    /\ mainSave' = None
    /\ UNCHANGED now
    /\ UNCHANGED hostVars

TrackTabClosed(url, tab_id) ==
    LET r == track_tab_closed(tracker[1].root, url, tab_id, now) IN
    /\ tracker' = Some([tracker[1] EXCEPT !.root = r.root])
    /\ lastOp' = [NoOp EXCEPT !.op = "close", !.url = url, !.tab_id = tab_id,
                              !.result = r.result]
    /\ GhostEnd(url, tab_id, r.result)
    /\ report' = None
    /\ mainSave' = None
    /\ UNCHANGED now
    /\ UNCHANGED hostVars

GetTrackingData ==
    LET r == get_tracking_data(tracker[1].root, now) IN
    /\ tracker' = Some([tracker[1] EXCEPT !.root = r.root])
    /\ report' = Some(r.result)
    /\ lastOp' = [NoOp EXCEPT !.op = "report"]
    /\ mainSave' = None
    /\ UNCHANGED <<now, gOpen, gSum>>
    /\ UNCHANGED hostVars

SerializeSession(include_tabs) ==
    LET r == serialize_session(tracker[1], include_tabs, now) IN
    /\ tracker' = Some(r.tracker)
    /\ mainSave' = Some(r.session)
    /\ lastOp' = [NoOp EXCEPT !.op = "snapshot"]
    /\ report' = None
    /\ UNCHANGED <<now, gOpen, gSum>>
    /\ UNCHANGED hostVars

\* The calls made: two tabs on example.com, tab 1 also on example.com/blog,
\* and on focus the URLs that yield no parts.
TabCalls ==
    {<<"https://example.com", 1>>, <<"https://example.com", 2>>,
     <<"https://example.com/blog/", 1>>}

FocusCalls == TabCalls \cup {<<"", 1>>, <<"not-a-url", 1>>, <<"mailto:", 1>>}

Next ==
    \/ Tick
    \/ \E c \in FocusCalls : TrackTabFocused(c[1], c[2])
    \/ \E c \in TabCalls : TrackTabUnfocused(c[1], c[2])
    \/ \E c \in TabCalls : TrackTabClosed(c[1], c[2])
    \/ GetTrackingData
    \/ \E include_tabs \in BOOLEAN : SerializeSession(include_tabs)

Spec == Init /\ [][Next]_vars

----------------------------------------------------------------------------
(* The host's dispatch loop, one request per step (specification HostSpec): *)
(* read_message, handle_message and send_message of one iteration of run,   *)
(* on an empty store, without interrupt.                                    *)

NameWork == <<"w", "o", "r", "k">>
NameSlash == <<"a", "/", "b">>

SessionNames == {NameWork, <<>>, NameSlash}

RequestIds == {1, 2}

HostTabCalls == {<<"https://example.com/a/b", 1>>, <<"https://example.com/blog/", 1>>}

HostInit ==
    /\ now = 0
    /\ tracker = None
    /\ disk = EmptyDisk
    /\ pc = "read"
    /\ mainSave = None
    /\ hpc = "none"
    /\ hTracker = None
    /\ hSave = None
    /\ response = None
    /\ report = None
    /\ lastOp = NoOp
    /\ gSession = None
    /\ gSaved = <<>>
    /\ gForeign = {}
    /\ stdin = NoInput
    /\ stdout = <<>>
    /\ GhostInit

threadVars == <<mainSave, hpc, hTracker, hSave, gOpen, gSum, streamVars>>

\* send_message: the frame is written, or the write fails and the loop breaks.
Send(message, id, write_ok) ==
    /\ response' = IF write_ok THEN Some(with_id(message, id)) ELSE response
    /\ pc' = IF write_ok THEN "read" ELSE "done"

HostTick ==
    /\ now < HostMaxTime
    /\ now' = now + 1
    /\ lastOp' = [NoOp EXCEPT !.op = "tick"]
    /\ UNCHANGED <<tracker, disk, pc, response, report, gSession>>
    /\ UNCHANGED threadVars

HostStart(id, session_name, write_ok) ==
    /\ pc = "read"
    /\ LET r == handle_start_action(tracker, disk, session_name) IN
       /\ tracker' = r.slot
       /\ gSession' = IF r.message.success THEN Some(session_name) ELSE gSession
       /\ Send(r.message, id, write_ok)
    /\ lastOp' = [NoOp EXCEPT !.op = "Start", !.name = session_name]
    /\ report' = None
    /\ UNCHANGED <<now, disk>>
    /\ UNCHANGED threadVars

HostStop(id, outcome, write_ok) ==
    /\ pc = "read"
    /\ \E r \in {handle_stop_action(tracker, disk, now, outcome)} :
       /\ tracker' = r.slot
       /\ disk' = r.disk
       /\ gSession' = IF r.message.success THEN None ELSE gSession
       /\ Send(r.message, id, write_ok)
    /\ lastOp' = [NoOp EXCEPT !.op = "Stop"]
    /\ report' = None
    /\ UNCHANGED now
    /\ UNCHANGED threadVars

HostGetData(id, write_ok) ==
    /\ pc = "read"
    /\ LET r == handle_get_data_action(tracker, now) IN
       /\ tracker' = r.slot
       /\ report' = r.report
       /\ Send(r.message, id, write_ok)
    /\ lastOp' = [NoOp EXCEPT !.op = "GetData"]
    /\ UNCHANGED <<now, disk, gSession>>
    /\ UNCHANGED threadVars

HostGetActive(id, write_ok) ==
    /\ pc = "read"
    /\ Send(handle_get_active_action(tracker), id, write_ok)
    /\ lastOp' = [NoOp EXCEPT !.op = "GetActive"]
    /\ report' = None
    /\ UNCHANGED <<now, tracker, disk, gSession>>
    /\ UNCHANGED threadVars

HostPing(id, write_ok) ==
    /\ pc = "read"
    /\ Send(OutgoingMessage_success(None), id, write_ok)
    /\ lastOp' = [NoOp EXCEPT !.op = "Ping"]
    /\ report' = None
    /\ UNCHANGED <<now, tracker, disk, gSession>>
    /\ UNCHANGED threadVars

HostTabOperation(id, operation, url, tab_id, write_ok) ==
    /\ pc = "read"
    /\ LET r == handle_tab_operation(tracker, operation, url, tab_id, now) IN
       /\ tracker' = r.slot
       /\ Send(r.message, id, write_ok)
       /\ lastOp' = [NoOp EXCEPT !.op = "Tab" \o operation, !.url = url,
                                 !.tab_id = tab_id, !.result = r.result]
    /\ report' = None
    /\ UNCHANGED <<now, disk, gSession>>
    /\ UNCHANGED threadVars

\* Mutant: the end of the input saves the snapshot with its instances.
HostEndOfFile_full(outcome) ==
    /\ pc = "read"
    /\ IF tracker # None
       THEN LET ser == serialize_session(tracker[1], TRUE, now) IN
            disk' = save_session(disk, ser.session, outcome).disk
       ELSE disk' = disk
    /\ tracker' = None
    /\ pc' = "done"
    /\ lastOp' = [NoOp EXCEPT !.op = "Eof"]
    /\ report' = None
    /\ UNCHANGED <<now, response, gSession>>
    /\ UNCHANGED threadVars

\* read_message fails with UnexpectedEof: the tracker is taken and saved
\* pruned (a failure is only logged) and run returns.
HostEndOfFile(outcome) ==
    /\ pc = "read"
    /\ IF tracker # None
       THEN LET ser == serialize_session(tracker[1], FALSE, now) IN
            disk' = save_session(disk, ser.session, outcome).disk
       ELSE disk' = disk
    /\ tracker' = None
    /\ pc' = "done"
    /\ lastOp' = [NoOp EXCEPT !.op = "Eof"]
    /\ report' = None
    /\ UNCHANGED <<now, response, gSession>>
    /\ UNCHANGED threadVars

HostNext ==
    \/ HostTick
    \/ \E id \in RequestIds, n \in SessionNames, w \in BOOLEAN : HostStart(id, n, w)
    \/ \E id \in RequestIds, o \in SaveOutcomes, w \in BOOLEAN : HostStop(id, o, w)
    \/ \E id \in RequestIds, w \in BOOLEAN : HostGetData(id, w)
    \/ \E id \in RequestIds, w \in BOOLEAN : HostGetActive(id, w)
    \/ \E id \in RequestIds, w \in BOOLEAN : HostPing(id, w)
    \/ \E id \in RequestIds, o \in {"Focus", "Unfocus", "Close"}, c \in HostTabCalls,
          w \in BOOLEAN : HostTabOperation(id, o, c[1], c[2], w)
    \/ \E o \in SaveOutcomes : HostEndOfFile(o)

HostSpec == HostInit /\ [][HostNext]_vars

----------------------------------------------------------------------------
(* The dispatch loop with the ctrlc handler (specification IntSpec): the    *)
(* handler runs on a thread of its own and reaches the slot and the session *)
(* store through raw pointers, so its steps interleave with the steps of    *)
(* the main thread's Stop and end-of-input saves. The process is over when  *)
(* the handler has called process::exit or run has returned.                *)

IntRequestId == 1

IntUrl == "https://example.com/blog/"

ProcessRunning == hpc # "exited" /\ pc # "done"

IntTick ==
    /\ ProcessRunning
    /\ HostTick

\* The requests that save nothing, handled in one step.
IntStart ==
    /\ ProcessRunning
    /\ HostStart(IntRequestId, NameWork, TRUE)

IntTabFocused ==
    /\ ProcessRunning
    /\ HostTabOperation(IntRequestId, "Focus", IntUrl, 1, TRUE)

\* handle_stop_action up to the call of save_session: the slot is matched and
\* the tracker in it swept and serialized without instances.
StopBegin ==
    /\ ProcessRunning
    /\ pc = "read"
    /\ IF tracker = None
       THEN /\ Send(OutgoingMessage_error(TRACKER_NOT_STARTED), IntRequestId, TRUE)
            /\ UNCHANGED <<tracker, mainSave>>
       ELSE LET ser == serialize_session(tracker[1], FALSE, now) IN
            /\ tracker' = Some(ser.tracker)
            /\ mainSave' = Some(ser.session)
            /\ pc' = "stop_create"
            /\ UNCHANGED response
    /\ lastOp' = [NoOp EXCEPT !.op = "Stop"]
    /\ UNCHANGED <<now, disk, hpc, hTracker, hSave, report, gOpen, gSum, gSession, streamVars>>

\* The UnexpectedEof arm up to the call of save_session: the tracker is taken
\* out of the slot, swept and serialized without instances; with an empty
\* slot run returns.
EofBegin ==
    /\ ProcessRunning
    /\ pc = "read"
    /\ IF tracker = None
       THEN /\ pc' = "done"
            /\ UNCHANGED <<tracker, mainSave>>
       ELSE LET ser == serialize_session(tracker[1], FALSE, now) IN
            /\ tracker' = None
            /\ mainSave' = Some(ser.session)
            /\ pc' = "eof_create"
    /\ lastOp' = [NoOp EXCEPT !.op = "Eof"]
    /\ UNCHANGED <<now, disk, response, hpc, hTracker, hSave, report, gOpen, gSum, gSession, streamVars>>

\* save_session on the main thread: File::create.
MainCreate ==
    /\ ProcessRunning
    /\ pc \in {"stop_create", "eof_create"}
    /\ disk' = create_tmp(disk, "main", mainSave[1].session_name)
    /\ pc' = IF pc = "stop_create" THEN "stop_write" ELSE "eof_write"
    /\ UNCHANGED <<now, tracker, mainSave, response, hpc, hTracker, hSave, report,
                   lastOp, gOpen, gSum, gSession, streamVars>>

\* save_session on the main thread: write_all and sync_all.
MainWrite ==
    /\ ProcessRunning
    /\ pc \in {"stop_write", "eof_write"}
    /\ disk' = write_tmp(disk, "main", mainSave[1].session_name, mainSave[1])
    /\ pc' = IF pc = "stop_write" THEN "stop_rename" ELSE "eof_rename"
    /\ UNCHANGED <<now, tracker, mainSave, response, hpc, hTracker, hSave, report,
                   lastOp, gOpen, gSum, gSession, streamVars>>

\* The rename of save_session and the rest of handle_stop_action: on Ok the
\* slot is emptied and success answered, on Err the error is answered.
StopEnd ==
    /\ ProcessRunning
    /\ pc = "stop_rename"
    /\ LET r == rename_tmp(disk, mainSave[1].session_name) IN
       /\ disk' = r.disk
       /\ tracker' = IF r.err = None THEN None ELSE tracker
       /\ gSession' = IF r.err = None THEN None ELSE gSession
       /\ Send(IF r.err = None THEN OutgoingMessage_success(None)
               ELSE OutgoingMessage_error(r.err[1]), IntRequestId, TRUE)
    /\ mainSave' = None
    /\ UNCHANGED <<now, hpc, hTracker, hSave, report, lastOp, gOpen, gSum, streamVars>>

\* The rename of save_session and the rest of the UnexpectedEof arm: an error
\* is logged and run returns.
EofEnd ==
    /\ ProcessRunning
    /\ pc = "eof_rename"
    /\ disk' = rename_tmp(disk, mainSave[1].session_name).disk
    /\ pc' = "done"
    /\ mainSave' = None
    /\ UNCHANGED <<now, tracker, response, hpc, hTracker, hSave, report, lastOp,
                   gOpen, gSum, gSession, streamVars>>

\* The interrupt arrives: the handler takes the tracker out of the slot; with
\* an empty slot it goes straight to process::exit.
Interrupt ==
    /\ ProcessRunning
    /\ hpc = "none"
    /\ hTracker' = tracker
    /\ tracker' = None
    /\ hpc' = IF tracker = None THEN "exit" ELSE "serialize"
    /\ UNCHANGED <<now, disk, pc, mainSave, hSave, response, report, lastOp, gOpen, gSum, gSession, streamVars>>

\* tracker.serialize_session(true) in the handler.
HandlerSerialize ==
    /\ ProcessRunning
    /\ hpc = "serialize"
    /\ LET ser == serialize_session(hTracker[1], TRUE, now) IN
       /\ hTracker' = Some(ser.tracker)
       /\ hSave' = Some(ser.session)
    /\ hpc' = "create"
    /\ UNCHANGED <<now, tracker, disk, pc, mainSave, response, report, lastOp, gOpen, gSum, gSession, streamVars>>

\* save_session in the handler: File::create.
HandlerCreate ==
    /\ ProcessRunning
    /\ hpc = "create"
    /\ disk' = create_tmp(disk, "handler", hSave[1].session_name)
    /\ hpc' = "write"
    /\ UNCHANGED <<now, tracker, pc, mainSave, hTracker, hSave, response, report,
                   lastOp, gOpen, gSum, gSession, streamVars>>

\* save_session in the handler: write_all and sync_all.
HandlerWrite ==
    /\ ProcessRunning
    /\ hpc = "write"
    /\ disk' = write_tmp(disk, "handler", hSave[1].session_name, hSave[1])
    /\ hpc' = "rename"
    /\ UNCHANGED <<now, tracker, pc, mainSave, hTracker, hSave, response, report,
                   lastOp, gOpen, gSum, gSession, streamVars>>

\* save_session in the handler: fs::rename; its result is dropped.
HandlerRename ==
    /\ ProcessRunning
    /\ hpc = "rename"
    /\ disk' = rename_tmp(disk, hSave[1].session_name).disk
    /\ hpc' = "exit"
    /\ UNCHANGED <<now, tracker, pc, mainSave, hTracker, hSave, response, report,
                   lastOp, gOpen, gSum, gSession, streamVars>>

\* std::process::exit(0).
HandlerExit ==
    /\ ProcessRunning
    /\ hpc = "exit"
    /\ hpc' = "exited"
    /\ UNCHANGED <<now, tracker, disk, pc, mainSave, hTracker, hSave, response, report,
                   lastOp, gOpen, gSum, gSession, streamVars>>

IntNext ==
    \/ IntTick
    \/ IntStart
    \/ IntTabFocused
    \/ StopBegin
    \/ EofBegin
    \/ MainCreate
    \/ MainWrite
    \/ StopEnd
    \/ EofEnd
    \/ Interrupt
    \/ HandlerSerialize
    \/ HandlerCreate
    \/ HandlerWrite
    \/ HandlerRename
    \/ HandlerExit

IntSpec == HostInit /\ [][IntNext]_vars

----------------------------------------------------------------------------
(* The dispatch loop on a framed input stream (specification LoopSpec): the *)
(* stream is fixed at the start, each step is one iteration of the loop of  *)
(* run, from read_message to send_message or to the end of the loop.        *)

\* The declared length of the frames that hold a request.
RequestLen == 64

\* The longest input stream, in frames.
MaxFrames == 3

WholeFrame(len, body) == [prefix |-> 4, len |-> len, avail |-> len, body |-> body]

\* The requests of the streams; the id is given by the place in the stream.
LoopRequests ==
    {Request(0, "Start", "", 0, NameWork), Request(0, "Start", "", 0, <<>>),
     Request(0, "Stop", "", 0, <<>>), Request(0, "GetActive", "", 0, <<>>),
     Request(0, "GetSessions", "", 0, <<>>),
     Request(0, "DeleteSession", "", 0, NameWork),
     Request(0, "TabFocused", "https://example.com/blog/", 1, <<>>)}

\* The frames of the streams: requests, a request padded with white space to
\* the greatest length, payloads that decode to no request (of length 1 and
\* of the greatest length), a declared length of 0, declared lengths above
\* the maximum, a payload cut short and a prefix cut short.
LoopFrames ==
    {WholeFrame(RequestLen, Some(r)) : r \in LoopRequests}
    \cup {WholeFrame(MAX_MESSAGE_SIZE, Some(Request(0, "Ping", "", 0, <<>>))),
          WholeFrame(1, None), WholeFrame(MAX_MESSAGE_SIZE, None),
          WholeFrame(0, None),
          [prefix |-> 4, len |-> MAX_MESSAGE_SIZE + 1, avail |-> RequestLen, body |-> None],
          [prefix |-> 4, len |-> 2147483647, avail |-> RequestLen, body |-> None],
          [prefix |-> 4, len |-> MAX_MESSAGE_SIZE, avail |-> RequestLen, body |-> None],
          [prefix |-> 2, len |-> 0, avail |-> 0, body |-> None]}

\* The frame at place i of a stream: its request gets the id i.
Numbered(frame, i) ==
    IF frame.body = None THEN frame
    ELSE [frame EXCEPT !.body = Some([frame.body[1] EXCEPT !.id = i])]

\* The streams of n frames.
InputsOfLen(n) ==
    {[frames |-> [i \in 1..n |-> Numbered(f[i], i)], pos |-> 0, consumed |-> 0] :
        f \in [1..n -> LoopFrames]}

LoopInit ==
    /\ now = 0
    /\ tracker = None
    /\ disk = EmptyDisk
    /\ pc = "read"
    /\ mainSave = None
    /\ hpc = "none"
    /\ hTracker = None
    /\ hSave = None
    /\ response = None
    /\ report = None
    /\ lastOp = NoOp
    /\ gSession = None
    /\ gSaved = <<>>
    /\ gForeign = {}
    /\ \E n \in 0..MaxFrames : stdin \in InputsOfLen(n)
    /\ stdout = <<>>
    /\ GhostInit

loopFixed == <<now, mainSave, hpc, hTracker, hSave, report, gOpen, gSum, gSession, gSaved,
               gForeign>>

\* The stream after read_message read: one frame further.
Advance(input, read) == [input EXCEPT !.pos = @ + 1, !.consumed = read.consumed]

\* send_message in the loop: the frame is appended to the output, or the
\* write fails and the loop ends.
LoopSend(message, id, write_ok) ==
    /\ Send(message, id, write_ok)
    /\ stdout' = IF write_ok THEN Append(stdout, with_id(message, id)) ELSE stdout

\* Mutant: the loop ends once a Stop request has been answered.
LoopDispatch_stop_ends(outcome, write_ok) ==
    /\ pc = "read"
    /\ \E read \in {read_message(stdin)} :
          /\ read.kind = "Ok"
          /\ stdin' = Advance(stdin, read)
          /\ lastOp' = [NoOp EXCEPT !.op = read.message[1].action,
                                    !.tab_id = read.message[1].id]
          /\ \E r \in {handle_message(tracker, disk, read.message[1], now, outcome)} :
                /\ tracker' = r.slot
                /\ disk' = r.disk
                /\ response' = IF write_ok THEN Some(with_id(r.message, read.message[1].id))
                               ELSE response
                /\ stdout' = IF write_ok
                             THEN Append(stdout, with_id(r.message, read.message[1].id))
                             ELSE stdout
                /\ pc' = IF write_ok /\ read.message[1].action # "Stop"
                         THEN "read" ELSE "done"
    /\ UNCHANGED loopFixed

\* The Ok arm: the request is handled and its response sent.
LoopDispatch(outcome, write_ok) ==
    /\ pc = "read"
    /\ \E read \in {read_message(stdin)} :
          /\ read.kind = "Ok"
          /\ stdin' = Advance(stdin, read)
          /\ lastOp' = [NoOp EXCEPT !.op = read.message[1].action,
                                    !.tab_id = read.message[1].id]
          /\ \E r \in {handle_message(tracker, disk, read.message[1], now, outcome)} :
                /\ tracker' = r.slot
                /\ disk' = r.disk
                /\ LoopSend(r.message, read.message[1].id, write_ok)
    /\ UNCHANGED loopFixed

\* The UnexpectedEof arm: the tracker is saved pruned and run returns.
LoopEndOfFile(outcome) ==
    /\ pc = "read"
    /\ \E read \in {read_message(stdin)} :
          /\ read.kind = "UnexpectedEof"
          /\ stdin' = Advance(stdin, read)
    /\ IF tracker # None
       THEN disk' = save_session(disk, serialize_session(tracker[1], FALSE, now).session,
                                 outcome).disk
       ELSE disk' = disk
    /\ tracker' = None
    /\ pc' = "done"
    /\ lastOp' = [NoOp EXCEPT !.op = "Eof"]
    /\ UNCHANGED <<response, stdout>>
    /\ UNCHANGED loopFixed

\* Mutant: the arm of the other errors persists the tracker like the
\* UnexpectedEof arm before it ends the loop.
LoopReadError_saving(write_ok) ==
    /\ pc = "read"
    /\ \E read \in {read_message(stdin)} :
          /\ read.kind \notin {"Ok", "UnexpectedEof"}
          /\ stdin' = Advance(stdin, read)
          /\ lastOp' = [NoOp EXCEPT !.op = read.kind]
          /\ response' = IF write_ok
                         THEN Some(with_id(OutgoingMessage_error(
                                      NativeMessagingError_to_string(read)), 0))
                         ELSE response
          /\ stdout' = IF write_ok
                       THEN Append(stdout, with_id(OutgoingMessage_error(
                                      NativeMessagingError_to_string(read)), 0))
                       ELSE stdout
    /\ IF tracker # None
       THEN disk' = save_session(disk, serialize_session(tracker[1], FALSE, now).session,
                                 "ok").disk
       ELSE disk' = disk
    /\ tracker' = None
    /\ pc' = "done"
    /\ UNCHANGED loopFixed

\* The arm of the other errors: an error frame with id 0 is sent, whatever
\* becomes of the write, and the loop ends.
LoopReadError(write_ok) ==
    /\ pc = "read"
    /\ \E read \in {read_message(stdin)} :
          /\ read.kind \notin {"Ok", "UnexpectedEof"}
          /\ stdin' = Advance(stdin, read)
          /\ lastOp' = [NoOp EXCEPT !.op = read.kind]
          /\ response' = IF write_ok
                         THEN Some(with_id(OutgoingMessage_error(
                                      NativeMessagingError_to_string(read)), 0))
                         ELSE response
          /\ stdout' = IF write_ok
                       THEN Append(stdout, with_id(OutgoingMessage_error(
                                      NativeMessagingError_to_string(read)), 0))
                       ELSE stdout
    /\ pc' = "done"
    /\ UNCHANGED <<tracker, disk>>
    /\ UNCHANGED loopFixed

LoopNext ==
    \/ \E o \in SaveOutcomes, w \in BOOLEAN : LoopDispatch(o, w)
    \/ \E o \in SaveOutcomes : LoopEndOfFile(o)
    \/ \E w \in BOOLEAN : LoopReadError(w)

LoopSpec == LoopInit /\ [][LoopNext]_vars

----------------------------------------------------------------------------
(* The session store alone: calls on one SessionLoader over one save        *)
(* directory, as the unit tests make them, and a user who copies a backup   *)
(* back into the directory under another session's name.                    *)

NameB == <<"b">>
NameADotB == <<"a", ".", "b">>

\* The names of the store's sessions: save_session takes any name, the empty
\* one included.
StoreNames == {<<>>, NameB, NameADotB}

\* A tracker with one open tab, and its snapshots with and without instances.
StoreTracker(name) ==
    [session_name |-> name, root |-> track_tab_focused(<<>>, IntUrl, 1, 0).root]

StoreSessions ==
    {serialize_session(StoreTracker(name), include_tabs, 1).session :
        name \in StoreNames, include_tabs \in BOOLEAN}

\* The backups backup_session may make in one run.
MaxBackups == 1

NumBackups == IF disk.backups = None THEN 0 ELSE Cardinality(DOMAIN disk.backups[1])

StoreInit ==
    /\ now = 0
    /\ tracker = None
    /\ disk = EmptyDisk
    /\ pc = "read"
    /\ mainSave = None
    /\ hpc = "none"
    /\ hTracker = None
    /\ hSave = None
    /\ response = None
    /\ report = None
    /\ lastOp = NoOp
    /\ gSession = None
    /\ gSaved = <<>>
    /\ gForeign = {}
    /\ stdin = NoInput
    /\ stdout = <<>>
    /\ GhostInit

storeFixed == <<now, tracker, pc, mainSave, hpc, hTracker, hSave, response, report,
                gOpen, gSum, gSession, stdin, stdout>>

StoreSave(session, outcome) ==
    /\ \E r \in {save_session(disk, session, outcome)} :
          /\ disk' = r.disk
          /\ lastOp' = [NoOp EXCEPT !.op = "save", !.name = session.session_name,
                                    !.result = r.err]
          /\ gSaved' = IF r.err = None THEN Put(gSaved, session.session_name, session)
                       ELSE gSaved
          /\ gForeign' = IF r.err = None THEN gForeign \ {session.session_name}
                         ELSE gForeign
    /\ UNCHANGED storeFixed

StoreLoad(name) ==
    /\ lastOp' = [NoOp EXCEPT !.op = "load", !.name = name,
                              !.result = load_session(disk, name)]
    /\ UNCHANGED <<disk, gSaved, gForeign>>
    /\ UNCHANGED storeFixed

StoreList ==
    /\ lastOp' = [NoOp EXCEPT !.op = "list", !.result = list_sessions(disk)]
    /\ UNCHANGED <<disk, gSaved, gForeign>>
    /\ UNCHANGED storeFixed

StoreDelete(name) ==
    /\ \E r \in {delete_session(disk, name)} :
          /\ disk' = r.disk
          /\ lastOp' = [NoOp EXCEPT !.op = "delete", !.name = name, !.result = r.err]
          /\ gSaved' = IF r.err = None /\ name \in DOMAIN gSaved THEN Remove(gSaved, name)
                       ELSE gSaved
          /\ gForeign' = IF r.err = None THEN gForeign \ {name} ELSE gForeign
    /\ UNCHANGED storeFixed

StoreBackup(name) ==
    /\ NumBackups < MaxBackups
    /\ \E r \in {backup_session(disk, name, now)} :
          /\ disk' = r.disk
          /\ lastOp' = [NoOp EXCEPT !.op = "backup", !.name = name, !.result = r.err]
    /\ UNCHANGED <<gSaved, gForeign>>
    /\ UNCHANGED storeFixed

\* The user copies the backup made of the file of session from into the save
\* directory as the file of session to, a name its snapshot does not hold.
CopyBackup(from, to) ==
    /\ disk.backups # None
    /\ <<from, now>> \in DOMAIN disk.backups[1]
    /\ disk.backups[1][<<from, now>>].session_name # to
    /\ disk' = [disk EXCEPT !.files = Put(@, to, disk.backups[1][<<from, now>>])]
    /\ lastOp' = [NoOp EXCEPT !.op = "copy", !.name = to]
    /\ gSaved' = IF to \in DOMAIN gSaved THEN Remove(gSaved, to) ELSE gSaved
    /\ gForeign' = gForeign \cup {to}
    /\ UNCHANGED storeFixed

StoreNext ==
    \/ \E session \in StoreSessions, o \in SaveOutcomes : StoreSave(session, o)
    \/ \E name \in StoreNames : StoreLoad(name)
    \/ StoreList
    \/ \E name \in StoreNames : StoreDelete(name)
    \/ \E name \in StoreNames : StoreBackup(name)
    \/ \E from \in StoreNames, to \in StoreNames : CopyBackup(from, to)

StoreSpec == StoreInit /\ [][StoreNext]_vars

----------------------------------------------------------------------------
(* The host's requests with names at the limits of verify_session_name: the *)
(* requests of HostSpec, answered without write failure and at one clock    *)
(* value, with more names.                                                  *)

\* The name of n characters c.
Repeat(c, n) == [i \in 1..n |-> c]

\* Names of 0, 1, 100 and 101 ASCII characters, names of 50 and of 100
\* two-byte characters, and names with each of the rejected characters.
StartNames ==
    {<<>>, Repeat("a", 1), Repeat("a", MaxSessionNameLen), Repeat("a", MaxSessionNameLen + 1),
     Repeat("é", MaxSessionNameLen \div 2), Repeat("é", MaxSessionNameLen)}
    \cup {<<"a", c>> : c \in InvalidChars}

NameNext ==
    \/ \E name \in StartNames : HostStart(IntRequestId, name, TRUE)
    \/ \E o \in SaveOutcomes : HostStop(IntRequestId, o, TRUE)
    \/ \E id \in RequestIds : HostGetActive(id, TRUE)
    \/ HostGetData(IntRequestId, TRUE)
    \/ HostPing(IntRequestId, TRUE)
    \/ \E o \in {"Focus", "Unfocus", "Close"} :
          HostTabOperation(IntRequestId, o, IntUrl, 1, TRUE)

NameSpec == HostInit /\ [][NameNext]_vars

----------------------------------------------------------------------------
(* Properties of the Tracker (specification Spec) *)

Root == tracker[1].root

HasInstance(root, url, tab_id) ==
    /\ UrlParts(url) \in DOMAIN root
    /\ find_tab_instance(root[UrlParts(url)], tab_id) # 0

RECURSIVE SumSeq(_)
SumSeq(seq) == IF seq = <<>> THEN 0 ELSE Head(seq) + SumSeq(Tail(seq))

\* The time of a node's instances not yet in its aggregate_time, at time t.
PendingTime(node, t) ==
    SumSeq([i \in 1..Len(node.instances) |->
               node.instances[i].time_active
               + (IF node.instances[i].last_opened # None
                  THEN t - node.instances[i].last_opened[1] ELSE 0)])

\* C1: after every successful close, the node's aggregate_time plus the time
\* of the instances still held there equals the total length of the Active
\* intervals at that node; with no instance left, aggregate_time alone equals
\* that total, whatever focus/unfocus calls and sweeps came before.
C1_AccountingLaw ==
    (lastOp.op = "close" /\ lastOp.result = Ok) =>
        LET p == UrlParts(lastOp.url) IN
        /\ p \in DOMAIN Root
        /\ find_tab_instance(Root[p], lastOp.tab_id) = 0
        /\ Root[p].aggregate_time + PendingTime(Root[p], now) = gSum[p]
        /\ (Root[p].instances = <<>> => Root[p].aggregate_time = gSum[p])

\* A successful close that leaves the node without instances after Active
\* intervals of total length 2.
C1_Witness ==
    /\ lastOp.op = "close" /\ lastOp.result = Ok
    /\ Root[UrlParts(lastOp.url)].instances = <<>>
    /\ Root[UrlParts(lastOp.url)].aggregate_time = 2
    /\ gSum[UrlParts(lastOp.url)] = 2

\* C2: an unfocus or close of a (url, tab_id) with no instance at the resolved
\* node returns TabNotFound(tab_id) and leaves the tracker as it was; with an
\* instance there it returns Ok; and a successful focus leaves an instance.
C2_TabNotFound ==
    [][ /\ lastOp'.op \in {"unfocus", "close"} =>
             IF HasInstance(Root, lastOp'.url, lastOp'.tab_id)
             THEN lastOp'.result = Ok
             ELSE lastOp'.result = TabNotFound(lastOp'.tab_id) /\ tracker' = tracker
        /\ (lastOp'.op = "focus" /\ lastOp'.result = Ok) =>
             HasInstance(Root', lastOp'.url, lastOp'.tab_id) ]_vars

\* A close that failed with TabNotFound because the node path is absent,
\* in a tree that holds another node.
C2_Witness ==
    /\ lastOp.op = "close" /\ lastOp.result = TabNotFound(lastOp.tab_id)
    /\ UrlParts(lastOp.url) \notin DOMAIN Root
    /\ Root # <<>>

RECURSIVE JoinPath(_)
\* The segments of a path joined by "/".
JoinPath(p) ==
    IF Len(p) = 1 THEN p[1] ELSE (JoinPath(SubSeq(p, 1, Len(p) - 1)) \o "/") \o p[Len(p)]

Swept(root, t) ==
    \A p \in DOMAIN root : \A i \in 1..Len(root[p].instances) :
        /\ root[p].instances[i].time_active = 0
        /\ root[p].instances[i].last_opened \in {None, Some(t)}

\* C7: a report leaves every node swept at the current time and holds exactly
\* one record for each node whose aggregate_time is > 0 after the sweep, with
\* that node's slash-joined path and aggregate_time, and no other record.
C7_Report ==
    lastOp.op = "report" =>
        /\ report # None
        /\ Swept(Root, now)
        /\ \A p \in DOMAIN Root :
              Cardinality({i \in 1..Len(report[1]) : report[1][i].path = JoinPath(p)})
                 = (IF Root[p].aggregate_time > 0 THEN 1 ELSE 0)
        /\ \A i \in 1..Len(report[1]) : \E p \in DOMAIN Root :
              /\ report[1][i].path = JoinPath(p)
              /\ report[1][i].aggregate_time = Root[p].aggregate_time

\* A report with a record for example.com/blog while example.com holds an
\* instance, has aggregate_time 0 and gets no record.
C7_Witness ==
    /\ lastOp.op = "report"
    /\ \E i \in 1..Len(report[1]) : report[1][i].path = "example.com/blog"
    /\ Root[<<"example.com">>].instances # <<>>
    /\ Root[<<"example.com">>].aggregate_time = 0
    /\ \A i \in 1..Len(report[1]) : report[1][i].path # "example.com"

\* A snapshot taken with the instances, of a tree that is not empty.
FullSnapshot(session) ==
    /\ session.data # <<>>
    /\ \A p \in DOMAIN session.data : session.data[p].instances # None

\* C18 as claimed: the tree restored from a full snapshot with
\* fresh_session = false is the tree as it was before serialize_session.
C18_RestoreIsTreeBefore ==
    [][lastOp'.op = "snapshot" /\ FullSnapshot(mainSave'[1]) =>
          from_serialized(tracker[1].session_name, mainSave'[1].data, FALSE)
             = tracker[1]]_vars

\* C18 as the code does it: the tree restored from a full snapshot with
\* fresh_session = false is the tree as serialize_session leaves it: the nodes
\* of the tree before, every instance swept at the time of the snapshot.
C18_RestoreIsSweptTree ==
    [][lastOp'.op = "snapshot" /\ FullSnapshot(mainSave'[1]) =>
          /\ from_serialized(tracker[1].session_name, mainSave'[1].data, FALSE)
                = tracker'[1]
          /\ DOMAIN tracker'[1].root = DOMAIN tracker[1].root
          /\ Swept(tracker'[1].root, now)
          /\ \A p \in DOMAIN tracker[1].root :
                /\ Len(tracker'[1].root[p].instances) = Len(tracker[1].root[p].instances)
                /\ \A i \in 1..Len(tracker[1].root[p].instances) :
                      /\ tracker'[1].root[p].instances[i].tab_id
                            = tracker[1].root[p].instances[i].tab_id
                      /\ is_active(tracker'[1].root[p].instances[i])
                            = is_active(tracker[1].root[p].instances[i])]_vars

\* A full snapshot was taken of a tree with an instance that was active for
\* a while: the sweep moved its time into aggregate_time.
C18_Witness ==
    /\ lastOp.op = "snapshot"
    /\ mainSave # None
    /\ FullSnapshot(mainSave[1])
    /\ now > 0
    /\ \E p \in DOMAIN tracker[1].root :
          /\ tracker[1].root[p].aggregate_time > 0
          /\ \E i \in 1..Len(tracker[1].root[p].instances) :
                tracker[1].root[p].instances[i].last_opened = Some(now)

\* C19: the tree restored from a snapshot, full or pruned, with
\* fresh_session = true has the nodes of the snapshot, each with the
\* snapshot's sub_part and aggregate_time and with no instance.
C19_FreshRestore ==
    (lastOp.op = "snapshot" /\ mainSave # None) =>
        /\ DOMAIN from_serialized(NameTest, mainSave[1].data, TRUE).root
              = DOMAIN mainSave[1].data
        /\ \A p \in DOMAIN mainSave[1].data :
              from_serialized(NameTest, mainSave[1].data, TRUE).root[p]
                 = [sub_part |-> mainSave[1].data[p].sub_part,
                    aggregate_time |-> mainSave[1].data[p].aggregate_time,
                    instances |-> <<>>]

\* A full snapshot holds an instance at a node below the host's node.
C19_Witness ==
    /\ lastOp.op = "snapshot"
    /\ mainSave # None
    /\ \E p \in DOMAIN mainSave[1].data :
          /\ Len(p) = 2
          /\ mainSave[1].data[p].instances # None
          /\ mainSave[1].data[p].instances[1] # <<>>
          /\ mainSave[1].data[p].aggregate_time > 0

----------------------------------------------------------------------------
(* Properties of the dispatch loop (specification HostSpec) *)

\* The file content is the pruned snapshot of tracker t taken at time time:
\* t's name and nodes, no instances field, and each aggregate_time with the
\* time of the node's instances up to `time` added.
IsPrunedSnapshotOf(content, t, time) ==
    /\ content.kind = "json"
    /\ content.session_name = t.session_name
    /\ DOMAIN content.data = DOMAIN t.root
    /\ \A p \in DOMAIN t.root :
          /\ "instances" \notin DOMAIN content.data[p]
          /\ content.data[p].aggregate_time
                = t.root[p].aggregate_time + PendingTime(t.root[p], time)

\* C4: a Stop while the slot is Active whose save succeeds empties the slot,
\* leaves under the session's name the pruned snapshot of the tracker at that
\* moment, and is answered (when the frame is written) with success.
C4_StopSavesPruned ==
    [][ \A id \in RequestIds, w \in BOOLEAN :
          (lastOp'.op = "Stop" /\ tracker # None /\ HostStop(id, "ok", w)) =>
             /\ tracker' = None
             /\ tracker[1].session_name \in DOMAIN disk'.files
             /\ IsPrunedSnapshotOf(disk'.files[tracker[1].session_name], tracker[1], now)
             /\ (w => response'[1].success) ]_vars

\* After a successful Stop the file holds time that was with an instance.
C4_Witness ==
    /\ lastOp.op = "Stop" /\ tracker = None /\ pc = "read"
    /\ response[1].success
    /\ NameWork \in DOMAIN disk.files
    /\ disk.files[NameWork].kind = "json"
    /\ \E p \in DOMAIN disk.files[NameWork].data :
          disk.files[NameWork].data[p].aggregate_time > 0

IsFailure(resp, text) ==
    /\ resp # None
    /\ ~resp[1].success
    /\ resp[1].data = None
    /\ resp[1].error = Some(text)

\* C5: a Start while the slot is Active, and a Stop, GetData or tab event
\* while it is Empty, change neither the slot nor the disk and, when the
\* frame is written, are answered with the failure "Tracker already started",
\* respectively "Tracker not started".
C5_LifecyclePreState ==
    [][ /\ (lastOp'.op = "Start" /\ tracker # None) =>
              /\ tracker' = tracker /\ disk' = disk
              /\ (pc' = "read" => IsFailure(response', "Tracker already started"))
        /\ (/\ lastOp'.op \in {"Stop", "GetData", "TabFocus", "TabUnfocus", "TabClose"}
            /\ tracker = None) =>
              /\ tracker' = None /\ disk' = disk
              /\ (pc' = "read" => IsFailure(response', TRACKER_NOT_STARTED)) ]_vars

\* A Start refused while the running tracker holds an instance.
C5_Witness ==
    /\ lastOp.op = "Start" /\ lastOp.name = NameWork
    /\ IsFailure(response, "Tracker already started")
    /\ tracker # None
    /\ \E p \in DOMAIN Root : Root[p].instances # <<>>

\* C6 as stated: a GetData while the slot is Active is answered with success
\* and a data payload holding the report the tracker computed.
C6_GetDataCarriesReport ==
    (lastOp.op = "GetData" /\ tracker # None /\ pc = "read") =>
        /\ response[1].success
        /\ response[1].data = Some([data |-> report[1]])

UrlAB == "https://example.com/a/b"

\* C8 as stated: a TabFocused of https://example.com/a/b puts the instance at
\* the node example.com / a / b, and a GetData once that node has time
\* computes a report entry with path "example.com/a/b".
C8_PathABReported ==
    [][ /\ (lastOp'.op = "TabFocus" /\ lastOp'.url = UrlAB /\ lastOp'.result = Ok
            /\ tracker # None) =>
              /\ <<"example.com", "a", "b">> \in DOMAIN Root'
              /\ find_tab_instance(Root'[<<"example.com", "a", "b">>], lastOp'.tab_id) # 0
        /\ (lastOp'.op = "GetData" /\ tracker # None
            /\ \E p \in DOMAIN Root' : Root'[p].aggregate_time > 0) =>
              \E i \in 1..Len(report'[1]) : report'[1][i].path = "example.com/a/b" ]_vars

\* C8 amended: the segments a and b have length 1 and are filtered out, so the
\* TabFocused puts the instance at the node example.com and creates no node
\* below it; a GetData while that node holds the tab and has time computes a
\* report with one entry whose path is "example.com", carrying that node's
\* aggregate_time, and no entry whose path is "example.com/a/b".
C8_PathHostOnly ==
    [][ /\ (lastOp'.op = "TabFocus" /\ lastOp'.url = UrlAB /\ lastOp'.result = Ok
            /\ tracker # None) =>
              /\ <<"example.com">> \in DOMAIN Root'
              /\ find_tab_instance(Root'[<<"example.com">>], lastOp'.tab_id) # 0
              /\ <<"example.com", "a">> \notin DOMAIN Root'
              /\ <<"example.com", "a", "b">> \notin DOMAIN Root'
        /\ (lastOp'.op = "GetData" /\ tracker # None
            /\ <<"example.com">> \in DOMAIN Root'
            /\ Root'[<<"example.com">>].instances # <<>>
            /\ Root'[<<"example.com">>].aggregate_time > 0) =>
              /\ Cardinality({i \in 1..Len(report'[1]) :
                                 report'[1][i].path = "example.com"}) = 1
              /\ \A i \in 1..Len(report'[1]) :
                    /\ report'[1][i].path # "example.com/a/b"
                    /\ report'[1][i].path = "example.com" =>
                          report'[1][i].aggregate_time
                             = Root'[<<"example.com">>].aggregate_time ]_vars

\* A GetData after elapsed time with tab 1 still Active at example.com.
C8_Witness ==
    /\ lastOp.op = "GetData" /\ tracker # None
    /\ tracker[1].session_name = NameWork
    /\ <<"example.com">> \in DOMAIN Root
    /\ find_tab_instance(Root[<<"example.com">>], 1) # 0
    /\ is_active(Root[<<"example.com">>].instances[1])
    /\ \E i \in 1..Len(report[1]) :
          report[1][i].path = "example.com" /\ report[1][i].aggregate_time > 0

\* C9: at the end of the input the loop ends, no frame is written and the slot
\* is empty; with an Active slot the save of the pruned snapshot of the tracker
\* at that moment is made under its name (a save that fails leaves the session
\* files as they were); with an Empty slot the disk is unchanged.
C9_EndOfFile ==
    [][ \A o \in SaveOutcomes :
          (lastOp'.op = "Eof" /\ HostEndOfFile(o)) =>
             /\ pc' = "done"
             /\ response' = response
             /\ tracker' = None
             /\ IF tracker = None THEN disk' = disk
                ELSE IF o = "ok"
                THEN /\ tracker[1].session_name \in DOMAIN disk'.files
                     /\ IsPrunedSnapshotOf(disk'.files[tracker[1].session_name],
                                           tracker[1], now)
                ELSE disk'.files = disk.files ]_vars

\* The loop ended at the end of the input and the file holds time.
C9_Witness ==
    /\ lastOp.op = "Eof" /\ pc = "done" /\ tracker = None
    /\ NameWork \in DOMAIN disk.files
    /\ disk.files[NameWork].kind = "json"
    /\ \E p \in DOMAIN disk.files[NameWork].data :
          /\ disk.files[NameWork].data[p].aggregate_time > 0
          /\ "instances" \notin DOMAIN disk.files[NameWork].data[p]

----------------------------------------------------------------------------
(* Properties of the interrupt handler (specification IntSpec) *)

\* C10: when the handler found the slot Active and the process has exited
\* through it, the session file under the name of the tracker it took holds a
\* full snapshot: a JSON document whose nodes are the tracker's, each with its
\* instances field, an Active instance with its last_opened.
C10_InterruptLeavesFull ==
    (hpc = "exited" /\ hTracker # None) =>
        LET name == hTracker[1].session_name IN
        /\ name \in DOMAIN disk.files
        /\ disk.files[name].kind = "json"
        /\ DOMAIN disk.files[name].data = DOMAIN hTracker[1].root
        /\ \A p \in DOMAIN hTracker[1].root :
              /\ "instances" \in DOMAIN disk.files[name].data[p]
              /\ disk.files[name].data[p].instances = hTracker[1].root[p].instances

----------------------------------------------------------------------------
(* Properties of the loop on a framed stream (specification LoopSpec) *)

RECURSIVE DecodedUpTo(_, _)
\* The ids of the requests read_message decoded among the first n frames.
DecodedUpTo(input, n) ==
    IF n = 0 THEN <<>>
    ELSE LET read == read_message([input EXCEPT !.pos = n - 1]) IN
         IF read.kind = "Ok"
         THEN Append(DecodedUpTo(input, n - 1), read.message[1].id)
         ELSE DecodedUpTo(input, n - 1)

\* The ids of the requests decoded so far, in the order received.
DecodedIds == DecodedUpTo(stdin, stdin.pos)

\* The ids of the frames written so far, in the order written.
WrittenIds == [k \in 1..Len(stdout) |-> stdout[k].id]

ReadErrors == {"Json", "InvalidLength", "MessageTooLarge"}

\* C11 as claimed: every frame written answers one decoded request and carries
\* its id, the k-th frame the k-th request; while the loop runs every decoded
\* request has its frame.
C11_EveryFrameAnswersARequest ==
    /\ Len(WrittenIds) <= Len(DecodedIds)
    /\ \A k \in 1..Len(WrittenIds) : WrittenIds[k] = DecodedIds[k]
    /\ (pc = "read" => Len(WrittenIds) = Len(DecodedIds))

\* C11 as the loop does it: while the loop runs the frames written are the
\* responses to the decoded requests, one each, in the order received and with
\* their ids; the loop ends either at the end of the input with all requests
\* answered, or on a failed write with all but the last answered, or on a
\* failed read, after which one more frame may be written: an error with
\* id 0 that answers no request.
C11_FramesAnswerRequestsOrReadError ==
    /\ (pc = "read" => WrittenIds = DecodedIds)
    /\ (pc = "done" /\ lastOp.op = "Eof" => WrittenIds = DecodedIds)
    /\ (pc = "done" /\ lastOp.op \in ReadErrors =>
           \/ WrittenIds = DecodedIds
           \/ /\ WrittenIds = Append(DecodedIds, 0)
              /\ ~stdout[Len(stdout)].success
              /\ stdout[Len(stdout)].error # None)
    /\ (pc = "done" /\ lastOp.op \notin ReadErrors \cup {"Eof"} =>
           /\ DecodedIds # <<>>
           /\ WrittenIds = SubSeq(DecodedIds, 1, Len(DecodedIds) - 1))

\* Two requests were answered in order and the failed read of the third
\* frame was answered with the id 0.
C11_Witness ==
    /\ pc = "done"
    /\ lastOp.op \in ReadErrors
    /\ WrittenIds = <<1, 2, 0>>
    /\ DecodedIds = <<1, 2>>

\* The frame the last iteration of the loop read.
LastFrame == stdin.frames[stdin.pos]

\* A frame with its whole prefix, a declared length within the limits and
\* the whole payload.
WellFramed(frame) ==
    /\ frame.prefix = 4
    /\ frame.len >= 1
    /\ frame.len <= MAX_MESSAGE_SIZE
    /\ frame.avail = frame.len

\* The last response was not written: send_message failed.
WriteFailed == lastOp.op \notin ReadErrors \cup {"Eof"} /\ WrittenIds # DecodedIds

\* C12: the loop ends only at the end of the input, on a short read, on a
\* declared length of 0 or above the maximum, or on a failed write; a request
\* answered with a failure leaves the loop running, and no well-framed frame
\* ends the loop.
C12_LoopEndsOnlyOnFraming ==
    pc = "done" =>
        /\ \/ lastOp.op \in {"Eof", "InvalidLength", "MessageTooLarge"}
           \/ WriteFailed
        /\ (stdin.pos > 0 /\ stdin.pos <= Len(stdin.frames) /\ WellFramed(LastFrame)
               => WriteFailed)

\* C17: a step that reads a whole length prefix. A declared length of 0 is
\* answered InvalidLength and one above 1048576 MessageTooLarge, without a
\* payload byte read and without a request dispatched (slot and store stay,
\* the loop ends); a declared length from 1 to 1048576 is accepted, and the
\* payload bytes read are that many when the stream holds them and never more.
C17_LengthPrefix ==
    [][(/\ stdin'.pos = stdin.pos + 1
        /\ stdin'.pos <= Len(stdin'.frames)
        /\ stdin'.frames[stdin'.pos].prefix = 4) =>
          /\ stdin'.frames[stdin'.pos].len = 0 =>
                /\ lastOp'.op = "InvalidLength"
                /\ stdin'.consumed = 0
                /\ tracker' = tracker /\ disk' = disk /\ pc' = "done"
          /\ stdin'.frames[stdin'.pos].len > 1048576 =>
                /\ lastOp'.op = "MessageTooLarge"
                /\ stdin'.consumed = 0
                /\ tracker' = tracker /\ disk' = disk /\ pc' = "done"
          /\ stdin'.frames[stdin'.pos].len \in 1..1048576 =>
                /\ lastOp'.op \notin {"InvalidLength", "MessageTooLarge"}
                /\ stdin'.consumed <= stdin'.frames[stdin'.pos].len
                /\ stdin'.frames[stdin'.pos].avail >= stdin'.frames[stdin'.pos].len =>
                      stdin'.consumed = stdin'.frames[stdin'.pos].len]_vars

\* A frame of 1048576 bytes was accepted and read whole, and the frame after
\* it, of declared length 0, was refused.
C17_Witness ==
    /\ stdin.pos = 2
    /\ Len(stdin.frames) >= 2
    /\ stdin.frames[1].len = 1048576
    /\ stdin.frames[1].avail = 1048576
    /\ stdin.frames[2].len = 0
    /\ stdin.frames[2].prefix = 4
    /\ lastOp.op = "InvalidLength"
    /\ stdin.consumed = 0

----------------------------------------------------------------------------
(* Properties of the session files (specifications IntSpec and StoreSpec) *)

\* C13: whatever the steps of the saves of the main loop and of the interrupt
\* handler, a file under a session's name is a complete snapshot: never a
\* file cut off, and never the bytes of two saves mixed.
C13_FileAbsentOrComplete ==
    \A name \in DOMAIN disk.files : disk.files[name].kind = "json"

\* C14: load_session(name) fails with SessionNotFound when name has no file,
\* fails with a serialization error when the file's session_name is not
\* name, and otherwise returns the snapshot of the last save under name; the
\* call leaves the directory as it was.
C14_LoadReturnsLastSaved ==
    [][lastOp'.op = "load" =>
          /\ disk' = disk
          /\ IF lastOp'.name \notin DOMAIN disk.files
             THEN lastOp'.result = [err |-> Some(SessionNotFound), session |-> None]
             ELSE IF disk.files[lastOp'.name].session_name # lastOp'.name
             THEN lastOp'.result = [err |-> Some(JsonError), session |-> None]
             ELSE /\ lastOp'.name \in DOMAIN gSaved
                  /\ lastOp'.result = [err |-> None,
                                       session |-> Some(gSaved[lastOp'.name])]]_vars

\* A load of a file copied in under another session's name has failed with
\* the serialization error, while another session is on file.
C14_Witness ==
    /\ lastOp.op = "load"
    /\ lastOp.name \in gForeign
    /\ lastOp.result.err = Some(JsonError)
    /\ gSaved # <<>>

\* A sequence of names in strictly ascending order: sorted, each name once.
Ascending(names) ==
    \A i \in 1..Len(names) : \A k \in (i + 1)..Len(names) : str_lt(names[i], names[k])

----------------------------------------------------------------------------
(* Properties of Start's name check (specification NameSpec) *)

\* A name verify_session_name is to reject: empty, longer than 100
\* characters, or with one of the rejected characters.
IllegalName(name) ==
    \/ name = <<>>
    \/ Len(name) > MaxSessionNameLen
    \/ \E i \in 1..Len(name) : name[i] \in InvalidChars

\* The response is the failure of verify_session_name.
IsNameFailure(resp) ==
    /\ resp # None
    /\ ~resp[1].success
    /\ resp[1].error \in
          {Some("Invalid session name: Session name cannot be empty"),
           Some("Invalid session name: Session name is too long. Allowed length: 100 characters"),
           Some("Invalid session name: Session name contains invalid characters")}

\* C16: a Start on the empty slot with an illegal name fails with the
\* session-name error and leaves the slot empty and the store as it was; with
\* a legal name of 1 to 100 characters that has no file it succeeds and the
\* slot holds a tracker of that name with an empty tree.
C16_StartChecksName ==
    [][lastOp'.op = "Start" /\ tracker = None =>
          IF IllegalName(lastOp'.name)
          THEN IsNameFailure(response') /\ tracker' = None /\ disk' = disk
          ELSE ~session_exists(disk, lastOp'.name) =>
                  /\ response'[1].success
                  /\ tracker' = Some(Tracker_new(lastOp'.name))
                  /\ disk' = disk]_vars

\* C20: GetActive succeeds and leaves slot and store as they were; it reports
\* the name of the last successful Start when no successful Stop followed
\* it, and no session otherwise.
C20_GetActiveReportsSession ==
    [][lastOp'.op = "GetActive" =>
          /\ response' # None
          /\ response'[1].success
          /\ response'[1].error = None
          /\ response'[1].data = IF gSession = None THEN None
                                 ELSE Some([session_name |-> gSession[1]])
          /\ tracker' = tracker
          /\ disk' = disk]_vars

\* A session was stopped and saved, a session of another name started after
\* it, and GetActive reported the second.
C20_Witness ==
    /\ lastOp.op = "GetActive"
    /\ gSession # None
    /\ disk.files # <<>>
    /\ gSession[1] \notin DOMAIN disk.files
    /\ response[1].data = Some([session_name |-> gSession[1]])

----------------------------------------------------------------------------
(* Properties of the hand-off between the main loop and the interrupt       *)
(* handler (specification IntSpec)                                          *)

\* C21: the interrupt handler and the main loop are never at work on the
\* slot or on a save at the same time: while the main loop is inside the
\* handling of a Stop or inside the end-of-input persist, the handler is not
\* between its take of the tracker and the end of its save.
C21_HandlerExcludesMainLoop ==
    ~(/\ pc \in {"stop_create", "stop_write", "stop_rename",
                 "eof_create", "eof_write", "eof_rename"}
      /\ hpc \in {"serialize", "create", "write", "rename"})

----------------------------------------------------------------------------
(* Properties of the sweeps and of the tree (specification Spec) *)

\* The number of Active instances of a node.
ActiveCount(node) ==
    Cardinality({i \in 1..Len(node.instances) : is_active(node.instances[i])})

\* The node is as a sweep at time t left it: nothing pending in time_active
\* and every Active instance opened at t.
SweptAt(node, t) ==
    \A i \in 1..Len(node.instances) :
        /\ node.instances[i].time_active = 0
        /\ is_active(node.instances[i]) => node.instances[i].last_opened = Some(t)

\* C22: a sweep (report or snapshot) at time t keeps the nodes and, for every
\* node, its total attributed time at t (aggregate_time plus the time_active
\* of its instances plus t - last_opened of the Active ones), its instances
\* and which of them are Active, and leaves the node swept at t; a sweep
\* that follows a sweep with nothing in between changes nothing; a sweep at
\* t2 of a node swept at t1 <= t2 adds t2 - t1 once per Active instance.
C22_SweepPreservesTotal ==
    [][lastOp'.op \in {"report", "snapshot"} =>
          /\ DOMAIN Root' = DOMAIN Root
          /\ \A p \in DOMAIN Root :
                /\ Root'[p].aggregate_time + PendingTime(Root'[p], now)
                      = Root[p].aggregate_time + PendingTime(Root[p], now)
                /\ Len(Root'[p].instances) = Len(Root[p].instances)
                /\ \A i \in 1..Len(Root[p].instances) :
                      /\ Root'[p].instances[i].tab_id = Root[p].instances[i].tab_id
                      /\ is_active(Root'[p].instances[i]) = is_active(Root[p].instances[i])
                /\ SweptAt(Root'[p], now)
                /\ \A t1 \in 0..now :
                      SweptAt(Root[p], t1) =>
                          Root'[p].aggregate_time
                              = Root[p].aggregate_time + (now - t1) * ActiveCount(Root[p])
          /\ (lastOp.op \in {"report", "snapshot"} => tracker' = tracker)]_vars

\* A report at time 2 of a node with two Active instances opened at
\* different times: the report shows the total 3 and both Active, and the
\* node is left swept at 2.
C22_Witness ==
    /\ lastOp.op = "report"
    /\ now = 2
    /\ \E p \in DOMAIN Root :
          /\ Len(Root[p].instances) = 2
          /\ ActiveCount(Root[p]) = 2
          /\ SweptAt(Root[p], 2)
          /\ Root[p].aggregate_time = 3
    /\ \E i \in 1..Len(report[1]) :
          report[1][i].aggregate_time = 3 /\ report[1][i].active_instances = 2

\* C23: a successful focus on a (url, tab_id) whose node holds an instance
\* with that tab_id adds no instance; when the instance is Active the tree
\* is left as it was (last_opened keeps its earlier value), when it is
\* Inactive its last_opened becomes now, its time_active stays, and nothing
\* else changes.
C23_RefocusIdempotent ==
    [][(/\ lastOp'.op = "focus"
        /\ lastOp'.result = Ok
        /\ HasInstance(Root, lastOp'.url, lastOp'.tab_id)) =>
          LET p == UrlParts(lastOp'.url)
              pos == find_tab_instance(Root[p], lastOp'.tab_id)
          IN IF is_active(Root[p].instances[pos])
             THEN tracker' = tracker
             ELSE /\ Root' = [Root EXCEPT ![p].instances[pos].last_opened = Some(now)]
                  /\ Root'[p].instances[pos].time_active = Root[p].instances[pos].time_active
                  /\ Len(Root'[p].instances) = Len(Root[p].instances)]_vars

\* A focus at time 2 of the tab focused at time 0 and still Active: the one
\* instance still has last_opened 0.
C23_Witness ==
    /\ lastOp.op = "focus"
    /\ lastOp.result = Ok
    /\ now = 2
    /\ LET node == Root[UrlParts(lastOp.url)] IN
       /\ Len(node.instances) = 1
       /\ node.instances[1].tab_id = lastOp.tab_id
       /\ node.instances[1].last_opened = Some(0)
       /\ node.instances[1].time_active = 0
       /\ node.aggregate_time = 0

\* A focus at time 2 of an instance that was unfocused at time 1: last_opened
\* is 2 and the time_active of 1 is kept.
C23_WitnessInactive ==
    /\ lastOp.op = "focus"
    /\ lastOp.result = Ok
    /\ LET node == Root[UrlParts(lastOp.url)] IN
       /\ Len(node.instances) = 1
       /\ node.instances[1].last_opened = Some(2)
       /\ node.instances[1].time_active = 1

\* C24: in every state reached from the empty tracker by focus, unfocus,
\* close, report and snapshot calls, no node holds two instances with the
\* same tab_id.
C24_TabIdsUniquePerNode ==
    \A p \in DOMAIN Root :
        \A i, j \in 1..Len(Root[p].instances) :
            Root[p].instances[i].tab_id = Root[p].instances[j].tab_id => i = j

\* A node with time already attributed holds two instances (tabs 1 and 2)
\* after a focus of a tab_id it already held, Active since an earlier time.
C24_Witness ==
    /\ lastOp.op = "focus"
    /\ lastOp.result = Ok
    /\ now = 2
    /\ LET node == Root[UrlParts(lastOp.url)] IN
       /\ Len(node.instances) = 2
       /\ node.aggregate_time > 0
       /\ \E i \in 1..2 : /\ node.instances[i].tab_id = lastOp.tab_id
                          /\ node.instances[i].last_opened # Some(now)
                          /\ is_active(node.instances[i])

\* C25: across every call on a tracker (focus, unfocus, close, report,
\* snapshot), successful or failed, every node stays and its aggregate_time
\* does not decrease.
C25_AggregateNeverDecreases ==
    [][\A p \in DOMAIN Root :
          /\ p \in DOMAIN Root'
          /\ Root'[p].aggregate_time >= Root[p].aggregate_time]_vars

\* A close that failed with TabNotFound on a node left without instances
\* whose aggregate_time is 2, while another node, swept, holds 1.
C25_Witness ==
    /\ lastOp.op = "close"
    /\ lastOp.result = TabNotFound(lastOp.tab_id)
    /\ UrlParts(lastOp.url) \in DOMAIN Root
    /\ Root[UrlParts(lastOp.url)].aggregate_time = 2
    /\ Root[UrlParts(lastOp.url)].instances = <<>>
    /\ \E p \in DOMAIN Root : Root[p].aggregate_time = 1 /\ ActiveCount(Root[p]) = 1

\* C26: the tracker starts without nodes; a successful focus adds to the
\* nodes exactly the missing prefixes of its URL's segment path, each new
\* node with aggregate_time 0 and no instances but the one the focus opens
\* at the end of the path; every other call, and a failed focus, leaves the
\* set of nodes as it was. So the nodes are at every point the non-empty
\* prefixes of the paths of the URLs focused with success so far.
C26_NodesAreFocusedPrefixes ==
    /\ DOMAIN Root = {}
    /\ [][IF lastOp'.op = "focus" /\ lastOp'.result = Ok
          THEN LET parts == UrlParts(lastOp'.url) IN
               /\ parts # <<>>
               /\ DOMAIN Root' = DOMAIN Root \cup {Prefix(parts, i) : i \in 1..Len(parts)}
               /\ \A p \in DOMAIN Root' \ DOMAIN Root :
                     /\ Root'[p].sub_part = p[Len(p)]
                     /\ Root'[p].aggregate_time = 0
                     /\ Root'[p].instances =
                            IF p = parts THEN <<TabInstance_new(lastOp'.tab_id, now)>>
                            ELSE <<>>
          ELSE DOMAIN Root' = DOMAIN Root]_vars

\* The last instance of example.com/blog was closed after a sweep: both
\* nodes of its path are still there, without instances, and the node
\* example.com, never focused itself, has aggregate_time 0.
C26_Witness ==
    /\ lastOp.op = "close"
    /\ lastOp.result = Ok
    /\ DOMAIN Root = {<<"example.com">>, <<"example.com", "blog">>}
    /\ \A p \in DOMAIN Root : Root[p].instances = <<>>
    /\ Root[<<"example.com">>].aggregate_time = 0
    /\ Root[<<"example.com", "blog">>].aggregate_time = 2
    /\ gSum[<<"example.com">>] = 0

\* C27: a successful focus, unfocus or close for a URL changes only the node
\* at the end of the URL's path: every other node that was there keeps its
\* aggregate_time and its instances, ancestors, descendants and nodes that
\* hold an instance with the same tab_id included, and the other nodes a
\* focus creates are empty.
C27_OnlyTargetNodeChanges ==
    [][(/\ lastOp'.op \in {"focus", "unfocus", "close"}
        /\ lastOp'.result = Ok) =>
          \A p \in DOMAIN Root' \ {UrlParts(lastOp'.url)} :
              IF p \in DOMAIN Root
              THEN Root'[p] = Root[p]
              ELSE Root'[p] = UrlNode_new(p[Len(p)])]_vars

\* Tab 1 was closed at example.com/blog after one time unit there, while
\* the parent node example.com holds an instance of the same tab 1, Active
\* since time 0 and untouched, and no aggregate_time.
C27_Witness ==
    /\ lastOp.op = "close"
    /\ lastOp.result = Ok
    /\ lastOp.tab_id = 1
    /\ UrlParts(lastOp.url) = <<"example.com", "blog">>
    /\ Root[<<"example.com", "blog">>].aggregate_time = 1
    /\ Root[<<"example.com">>].aggregate_time = 0
    /\ Root[<<"example.com">>].instances = <<TabInstance_new(1, 0)>>

----------------------------------------------------------------------------
(* Properties of Stop and Start over the session file (specification        *)
(* HostSpec)                                                                *)

\* C28: a Stop that empties the slot leaves under the session's name the
\* pruned snapshot of its sweep (the tracker's nodes, each with its swept
\* aggregate_time); while the slot is Empty the session files stay as they
\* are; a successful Start of a name that has a file fills the slot with a
\* tracker of that name that has the file's nodes, each with the file's
\* aggregate_time and no instances; and an unfocus or close for a tab the
\* tracker holds no instance of fails with TabNotFound and changes nothing.
C28_StopThenStart ==
    [][/\ (lastOp'.op = "Stop" /\ tracker # None /\ tracker' = None) =>
              /\ tracker[1].session_name \in DOMAIN disk'.files
              /\ IsPrunedSnapshotOf(disk'.files[tracker[1].session_name], tracker[1], now)
       /\ (tracker = None => disk'.files = disk.files)
       /\ (/\ lastOp'.op = "Start"
           /\ tracker = None
           /\ tracker' # None
           /\ lastOp'.name \in DOMAIN disk.files) =>
              LET file == disk.files[lastOp'.name] IN
              /\ tracker'[1].session_name = lastOp'.name
              /\ DOMAIN tracker'[1].root = DOMAIN file.data
              /\ \A p \in DOMAIN file.data :
                    /\ tracker'[1].root[p].sub_part = file.data[p].sub_part
                    /\ tracker'[1].root[p].aggregate_time = file.data[p].aggregate_time
                    /\ tracker'[1].root[p].instances = <<>>
       /\ (/\ lastOp'.op \in {"TabUnfocus", "TabClose"}
           /\ tracker # None
           /\ ~HasInstance(tracker[1].root, lastOp'.url, lastOp'.tab_id)) =>
              /\ lastOp'.result = TabNotFound(lastOp'.tab_id)
              /\ tracker' = tracker
              /\ (pc' = "read" =>
                     IsFailure(response', TrackerError_to_string(TabNotFound(lastOp'.tab_id))))
      ]_vars

\* After a Stop with a tab open at example.com/blog and a Start of the same
\* name, the close of that tab failed with TabNotFound: the tracker has the
\* file's nodes and times and no instance.
C28_Witness ==
    /\ lastOp.op = "TabClose"
    /\ lastOp.result = TabNotFound(1)
    /\ UrlParts(lastOp.url) = <<"example.com", "blog">>
    /\ tracker # None
    /\ tracker[1].session_name = NameWork
    /\ NameWork \in DOMAIN disk.files
    /\ DOMAIN tracker[1].root = DOMAIN disk.files[NameWork].data
    /\ <<"example.com", "blog">> \in DOMAIN tracker[1].root
    /\ \A p \in DOMAIN tracker[1].root :
          /\ tracker[1].root[p].instances = <<>>
          /\ tracker[1].root[p].aggregate_time = disk.files[NameWork].data[p].aggregate_time
    /\ tracker[1].root[<<"example.com", "blog">>].aggregate_time = 1
    /\ IsFailure(response, TrackerError_to_string(TabNotFound(1)))

\* C29: a Stop while the slot is Active whose save fails is answered (when
\* the frame is written) with the failure of the save and leaves the slot
\* Active with the same session name, the same nodes and the same instances,
\* swept at the current time: every node keeps its total attributed time,
\* its instances and which of them are Active; the session files stay as
\* they were.
C29_FailedStopKeepsTracker ==
    [][(lastOp'.op = "Stop" /\ tracker # None) =>
       \A o \in SaveOutcomes \ {"ok"} :
       \A r \in {handle_stop_action(tracker, disk, now, o)} :
          (tracker' = r.slot /\ disk' = r.disk) =>
             /\ tracker' # None
             /\ tracker'[1].session_name = tracker[1].session_name
             /\ DOMAIN tracker'[1].root = DOMAIN tracker[1].root
             /\ Swept(tracker'[1].root, now)
             /\ \A p \in DOMAIN tracker[1].root :
                   LET old == tracker[1].root[p]
                       new == tracker'[1].root[p]
                   IN /\ new.aggregate_time + PendingTime(new, now)
                            = old.aggregate_time + PendingTime(old, now)
                      /\ Len(new.instances) = Len(old.instances)
                      /\ \A i \in 1..Len(old.instances) :
                            /\ new.instances[i].tab_id = old.instances[i].tab_id
                            /\ is_active(new.instances[i]) = is_active(old.instances[i])
             /\ disk'.files = disk.files
             /\ gSession' = gSession
             /\ (pc' = "read" => IsFailure(response', IoError))]_vars

\* A Stop at time 1 failed: no file was written, and the tracker in the slot
\* still holds the tab opened at time 0, Active, its time swept into the
\* node.
C29_Witness ==
    /\ lastOp.op = "Stop"
    /\ IsFailure(response, IoError)
    /\ disk.files = <<>>
    /\ tracker # None
    /\ gSession = Some(tracker[1].session_name)
    /\ \E p \in DOMAIN tracker[1].root :
          /\ tracker[1].root[p].aggregate_time = 1
          /\ tracker[1].root[p].instances = <<TabInstance_new(1, 1)>>

----------------------------------------------------------------------------
(* Properties of the ways the loop ends (specification LoopSpec) *)

\* C30: an iteration that ends the loop otherwise than by the end of the
\* input. On a read error (declared length 0 or above the maximum, payload
\* that decodes to no request) the slot and the store stay exactly as they
\* were; whenever the slot is Active as the loop ends, no snapshot is saved:
\* every session file there is was there before with the same content; and
\* the output gets no frame, or the one failed response with id 0.
C30_LoopEndSavesNothing ==
    [][(pc = "read" /\ pc' = "done" /\ lastOp'.op # "Eof") =>
          /\ (lastOp'.op \in ReadErrors => tracker' = tracker /\ disk' = disk)
          /\ (tracker' # None =>
                 \A name \in DOMAIN disk'.files :
                     /\ name \in DOMAIN disk.files
                     /\ disk'.files[name] = disk.files[name])
          /\ \/ stdout' = stdout
             \/ /\ Len(stdout') = Len(stdout) + 1
                /\ SubSeq(stdout', 1, Len(stdout)) = stdout
                /\ stdout'[Len(stdout')].id = 0
                /\ ~stdout'[Len(stdout')].success
                /\ lastOp'.op \in ReadErrors]_vars

\* A session was started and a tab focused, then a payload that decodes to
\* no request ended the loop: the slot still holds the tracker with its
\* instance, no session file exists, and the output ends with the failed
\* response of id 0.
C30_Witness ==
    /\ pc = "done"
    /\ lastOp.op = "Json"
    /\ tracker # None
    /\ \E p \in DOMAIN tracker[1].root : tracker[1].root[p].instances # <<>>
    /\ disk.files = <<>>
    /\ Len(stdout) = 3
    /\ stdout[3].id = 0
    /\ ~stdout[3].success

\* The loop ended on the failed write of the response to a tab event while
\* the slot was Active: nothing was saved and no frame added.
C30_WitnessWrite ==
    /\ pc = "done"
    /\ lastOp.op = "TabFocused"
    /\ tracker # None
    /\ \E p \in DOMAIN tracker[1].root : tracker[1].root[p].instances # <<>>
    /\ disk.files = <<>>
    /\ Len(stdout) = 1

----------------------------------------------------------------------------
(* The host across processes (specification RestartSpec): requests handled  *)
(* one per step, an interrupt that arrives while the main thread waits in   *)
(* read_message, so that the handler runs to process::exit on its own, and  *)
(* a new process started later over the same save directory. The clock runs *)
(* on while no process does.                                                *)

\* The last clock value of this specification.
RestartMaxTime == 3

RestartTick ==
    /\ now < RestartMaxTime
    /\ now' = now + 1
    /\ lastOp' = [NoOp EXCEPT !.op = "tick"]
    /\ GhostTick(1)
    /\ UNCHANGED <<tracker, disk, pc, mainSave, hpc, hTracker, hSave, response, report,
                   gSession, streamVars>>

RestartStart ==
    /\ ProcessRunning
    /\ HostStart(IntRequestId, NameWork, TRUE)

RestartGetData ==
    /\ ProcessRunning
    /\ HostGetData(IntRequestId, TRUE)

\* A tab event; the ghost intervals follow the calls the tracker accepted.
RestartTabOperation(operation, tab_id) ==
    /\ ProcessRunning
    /\ pc = "read"
    /\ \E r \in {handle_tab_operation(tracker, operation, IntUrl, tab_id, now)} :
          /\ tracker' = r.slot
          /\ Send(r.message, IntRequestId, TRUE)
          /\ lastOp' = [NoOp EXCEPT !.op = "Tab" \o operation, !.url = IntUrl,
                                    !.tab_id = tab_id, !.result = r.result]
          /\ IF tracker = None THEN UNCHANGED <<gOpen, gSum>>
             ELSE IF operation = "Focus" THEN GhostFocus(IntUrl, tab_id, r.result)
             ELSE GhostEnd(IntUrl, tab_id, r.result)
    /\ report' = None
    /\ UNCHANGED <<now, disk, mainSave, hpc, hTracker, hSave, gSession, streamVars>>

\* The ctrlc handler from the signal to process::exit: the tracker is taken
\* out of the slot, swept and serialized with its instances and saved; the
\* result of the save is dropped. With an empty slot it only exits.
RestartInterrupt(outcome) ==
    /\ ProcessRunning
    /\ hpc = "none"
    /\ IF tracker # None
       THEN \E ser \in {serialize_session(tracker[1], TRUE, now)} :
               /\ hTracker' = Some(ser.tracker)
               /\ hSave' = Some(ser.session)
               /\ disk' = save_session(disk, ser.session, outcome).disk
       ELSE UNCHANGED <<hTracker, hSave, disk>>
    /\ tracker' = None
    /\ hpc' = "exited"
    /\ lastOp' = [NoOp EXCEPT !.op = "interrupt"]
    /\ UNCHANGED <<now, pc, mainSave, response, report, gOpen, gSum, gSession, streamVars>>

\* A new process: NativeMessagingHost::new and run over the directory as the
\* last process left it.
Restart ==
    /\ ~ProcessRunning
    /\ tracker' = None
    /\ pc' = "read"
    /\ hpc' = "none"
    /\ hTracker' = None
    /\ hSave' = None
    /\ mainSave' = None
    /\ response' = None
    /\ report' = None
    /\ gSession' = None
    /\ lastOp' = [NoOp EXCEPT !.op = "restart"]
    /\ UNCHANGED <<now, disk, gOpen, gSum, streamVars>>

RestartNext ==
    \/ RestartTick
    \/ RestartStart
    \/ RestartGetData
    \/ \E o \in {"Focus", "Unfocus", "Close"} : RestartTabOperation(o, 1)
    \/ \E o \in SaveOutcomes : RestartInterrupt(o)
    \/ Restart

RestartSpec == HostInit /\ [][RestartNext]_vars

----------------------------------------------------------------------------
(* Properties of the host across processes (specification RestartSpec) *)

\* C31: an interrupt whose save succeeds leaves under the session's name the
\* tracker's nodes with their instances as its sweep left them, every
\* Active instance Active with last_opened the time of the interrupt; while
\* no tracker is in the slot (no process, or none started) the file stays as
\* it is; a later Start of that name restores every instance as the file
\* holds it, Active with that last_opened; and an unfocus, close or sweep
\* adds to the node the whole interval from an Active instance's last_opened
\* to now, whenever the process was running in between.
C31_InterruptedIntervalRunsOn ==
    [][/\ (/\ lastOp'.op = "interrupt"
           /\ tracker # None
           /\ disk' = save_session(disk, hSave'[1], "ok").disk) =>
              LET name == tracker[1].session_name IN
              /\ name \in DOMAIN disk'.files
              /\ disk'.files[name].kind = "json"
              /\ DOMAIN disk'.files[name].data = DOMAIN tracker[1].root
              /\ \A p \in DOMAIN tracker[1].root :
                    LET old == tracker[1].root[p]
                        new == disk'.files[name].data[p]
                    IN /\ new.aggregate_time = old.aggregate_time + PendingTime(old, now)
                       /\ "instances" \in DOMAIN new
                       /\ Len(new.instances) = Len(old.instances)
                       /\ \A i \in 1..Len(old.instances) :
                             /\ new.instances[i].tab_id = old.instances[i].tab_id
                             /\ new.instances[i].time_active = 0
                             /\ new.instances[i].last_opened =
                                   IF is_active(old.instances[i]) THEN Some(now) ELSE None
       /\ (tracker = None => disk'.files = disk.files)
       /\ (/\ lastOp'.op = "Start"
           /\ tracker = None
           /\ tracker' # None
           /\ lastOp'.name \in DOMAIN disk.files) =>
              LET file == disk.files[lastOp'.name] IN
              /\ DOMAIN tracker'[1].root = DOMAIN file.data
              /\ \A p \in DOMAIN file.data :
                    /\ tracker'[1].root[p].aggregate_time = file.data[p].aggregate_time
                    /\ tracker'[1].root[p].instances = file.data[p].instances
       /\ (/\ lastOp'.op \in {"TabUnfocus", "TabClose", "GetData"}
           /\ tracker # None
           /\ lastOp'.result = Ok) =>
              \A p \in DOMAIN tracker[1].root :
                 LET old == tracker[1].root[p]
                     new == tracker'[1].root[p]
                 IN /\ new.aggregate_time + PendingTime(new, now)
                           = old.aggregate_time + PendingTime(old, now)
                    /\ (lastOp'.op = "GetData") =>
                           new.aggregate_time = old.aggregate_time + PendingTime(old, now)
      ]_vars

\* The tab was focused at time 0, the process interrupted at time 1 (the
\* file holds the instance Active with last_opened 1 and the node with 1),
\* a new process started the session and the tab was closed at time 3: the
\* node has 3, the whole time since the focus.
C31_Witness ==
    /\ lastOp.op = "TabClose"
    /\ lastOp.result = Ok
    /\ now = 3
    /\ hpc = "none"
    /\ tracker # None
    /\ NameWork \in DOMAIN disk.files
    /\ disk.files[NameWork].kind = "json"
    /\ UrlParts(IntUrl) \in DOMAIN disk.files[NameWork].data
    /\ disk.files[NameWork].data[UrlParts(IntUrl)].aggregate_time = 1
    /\ disk.files[NameWork].data[UrlParts(IntUrl)].instances = <<TabInstance_new(1, 1)>>
    /\ tracker[1].root[UrlParts(IntUrl)].aggregate_time = 3
    /\ tracker[1].root[UrlParts(IntUrl)].instances = <<>>
    /\ gSum[UrlParts(IntUrl)] = 3

----------------------------------------------------------------------------
(* Properties of the end of the input (specification LoopSpec) *)

\* The input ends at the next read: at a frame boundary, after 1 to 3 bytes
\* of a length prefix, or after fewer payload bytes than a length within the
\* limits declared.
InputEndsHere ==
    \/ stdin.pos >= Len(stdin.frames)
    \/ /\ stdin.pos < Len(stdin.frames)
       /\ LET frame == stdin.frames[stdin.pos + 1] IN
          \/ frame.prefix < 4
          \/ /\ frame.prefix = 4
             /\ frame.len >= 1
             /\ frame.len <= MAX_MESSAGE_SIZE
             /\ frame.avail < frame.len

\* C32: an iteration that finds the input ended, at a frame boundary or
\* inside a frame alike, takes the tracker out of the slot, saves its pruned
\* snapshot under its name (a save that fails leaves the files as they
\* were), ends the loop and writes no frame; with an empty slot it only ends
\* the loop.
C32_TornInputIsEndOfFile ==
    [][(pc = "read" /\ InputEndsHere) =>
          /\ lastOp'.op = "Eof"
          /\ pc' = "done"
          /\ tracker' = None
          /\ stdout' = stdout
          /\ response' = response
          /\ IF tracker = None THEN disk' = disk
             ELSE \/ disk'.files = disk.files
                  \/ /\ tracker[1].session_name \in DOMAIN disk'.files
                     /\ IsPrunedSnapshotOf(disk'.files[tracker[1].session_name],
                                           tracker[1], now)
                     /\ \A n \in DOMAIN disk.files \ {tracker[1].session_name} :
                           n \in DOMAIN disk'.files /\ disk'.files[n] = disk.files[n]
      ]_vars

\* The input ended inside the payload of the third frame while a session
\* with a focused tab was Active: the session's file holds the pruned
\* snapshot, the slot is empty, and the output holds the two responses to
\* the requests before, both successes.
C32_Witness ==
    /\ pc = "done"
    /\ lastOp.op = "Eof"
    /\ stdin.pos = 3
    /\ Len(stdin.frames) = 3
    /\ LastFrame.prefix = 4
    /\ LastFrame.avail < LastFrame.len
    /\ tracker = None
    /\ NameWork \in DOMAIN disk.files
    /\ disk.files[NameWork].kind = "json"
    /\ disk.files[NameWork].data # <<>>
    /\ \A p \in DOMAIN disk.files[NameWork].data :
          "instances" \notin DOMAIN disk.files[NameWork].data[p]
    /\ Len(stdout) = 2
    /\ \A i \in 1..2 : stdout[i].success

\* The same with the input ended after two bytes of the length prefix.
C32_WitnessPrefix ==
    /\ pc = "done"
    /\ lastOp.op = "Eof"
    /\ stdin.pos = 3
    /\ Len(stdin.frames) = 3
    /\ LastFrame.prefix = 2
    /\ tracker = None
    /\ NameWork \in DOMAIN disk.files
    /\ disk.files[NameWork].data # <<>>
    /\ Len(stdout) = 2

----------------------------------------------------------------------------
(* The Tracker near the ends of u64 (specification SatSpec): a Tracker     *)
(* restored from a session file, whose numbers are whatever the file held, *)
(* and a clock whose first sample may be earlier than the last_opened the  *)
(* file holds (SystemTime::now() is the wall clock, which can be set back  *)
(* between two processes) and advances from there. The ghost totals are    *)
(* not kept in this specification.                                         *)

SatMaxTime == 2

\* The clock samples: the first milliseconds and the last one.
SatTimes == (0..SatMaxTime) \cup {U64_MAX}

\* time_active and aggregate_time as the file held them.
SatActive == {0, 2, U64_MAX - 1}
SatAggregate == {0, U64_MAX - 1}

SatPath == <<"example.com">>
SatUrl == "https://example.com"

SatInstances ==
    {[tab_id |-> id, time_active |-> a, last_opened |-> lo] :
        id \in {1}, a \in SatActive, lo \in {None} \cup {Some(t) : t \in SatTimes}}

\* The file's data: one node with tab 1 and, in some files, tab 2.
SatData ==
    LET one == {<<i>> : i \in SatInstances}
        two == {<<i, [j EXCEPT !.tab_id = 2]>> : i \in SatInstances, j \in SatInstances}
    IN {(SatPath :> [sub_part |-> "example.com", aggregate_time |-> g,
                     instances |-> Some(is)]) :
           g \in SatAggregate, is \in one \cup two}

SatInit ==
    /\ now \in SatTimes
    /\ \E data \in SatData : tracker = Some(from_serialized(NameTest, data, FALSE))
    /\ disk = EmptyDisk
    /\ pc = "api"
    /\ mainSave = None
    /\ hpc = "none"
    /\ hTracker = None
    /\ hSave = None
    /\ response = None
    /\ report = None
    /\ lastOp = NoOp
    /\ gSession = None
    /\ gSaved = <<>>
    /\ gForeign = {}
    /\ stdin = NoInput
    /\ stdout = <<>>
    /\ GhostInit

\* current_timestamp returns a later sample.
SatClock(t) ==
    /\ t > now
    /\ now' = t
    /\ lastOp' = [NoOp EXCEPT !.op = "clock"]
    /\ report' = None
    /\ mainSave' = None
    /\ UNCHANGED <<tracker, gOpen, gSum>>
    /\ UNCHANGED hostVars

SatNext ==
    \/ \E t \in SatTimes : SatClock(t)
    \/ \E id \in TabIds : TrackTabFocused(SatUrl, id)
    \/ \E id \in TabIds : TrackTabUnfocused(SatUrl, id)
    \/ \E id \in TabIds : TrackTabClosed(SatUrl, id)
    \/ GetTrackingData
    \/ \E include_tabs \in BOOLEAN : SerializeSession(include_tabs)

SatSpec == SatInit /\ [][SatNext]_vars

----------------------------------------------------------------------------
(* Properties of the Tracker near the ends of u64 (specification SatSpec) *)

\* max(0, t - last_opened).
Elapsed(t, last_opened) == IF last_opened > t THEN 0 ELSE t - last_opened

\* min(2^w - 1, a + b) for a and b within the width, without forming a + b.
Capped(a, b) == IF b >= U64_MAX - a THEN U64_MAX ELSE a + b

\* What an instance holds at time t: time_active and the running interval.
Contribution(inst, t) ==
    IF inst.last_opened = None THEN inst.time_active
    ELSE Capped(inst.time_active, Elapsed(t, inst.last_opened[1]))

\* The capped total of a node's (at most two) instances at time t.
CappedTotal(node, t) ==
    IF Len(node.instances) = 0 THEN 0
    ELSE IF Len(node.instances) = 1 THEN Contribution(node.instances[1], t)
    ELSE Capped(Contribution(node.instances[1], t), Contribution(node.instances[2], t))

\* C33: every update of time_active and aggregate_time adds with the sum
\* capped at the largest value, and every elapsed interval is
\* max(0, now - last_opened). A successful unfocus leaves the instance with
\* min(cap, time_active + elapsed) and the aggregate as it was; a successful
\* close adds min(cap, time_active + elapsed) of the removed instance to the
\* aggregate, capped; a sweep (report or snapshot) adds the capped total of
\* the instances to the aggregate, capped, and leaves every time_active 0.
C33_SaturatingUpdates ==
    [][\A old \in {tracker[1].root[SatPath]} : \A new \in {tracker'[1].root[SatPath]} :
          /\ (lastOp'.op \in {"unfocus", "close"} /\ lastOp'.result = Ok) =>
                \E pos \in 1..Len(old.instances) :
                   /\ old.instances[pos].tab_id = lastOp'.tab_id
                   /\ IF lastOp'.op = "unfocus"
                      THEN /\ new.aggregate_time = old.aggregate_time
                           /\ new.instances[pos].last_opened = None
                           /\ new.instances[pos].time_active =
                                 Contribution(old.instances[pos], now)
                      ELSE /\ new.aggregate_time =
                                 Capped(old.aggregate_time,
                                        Contribution(old.instances[pos], now))
                           /\ \A i \in 1..Len(new.instances) :
                                 new.instances[i].tab_id # lastOp'.tab_id
          /\ (lastOp'.op \in {"report", "snapshot"}) =>
                /\ new.aggregate_time = Capped(old.aggregate_time, CappedTotal(old, now))
                /\ \A i \in 1..Len(new.instances) : new.instances[i].time_active = 0
          /\ new.aggregate_time >= old.aggregate_time
          /\ new.aggregate_time <= U64_MAX
          /\ \A i \in 1..Len(new.instances) :
                /\ new.instances[i].time_active >= 0
                /\ new.instances[i].time_active <= U64_MAX
      ]_vars

\* A close at clock 0 has left the aggregate at the largest value: the
\* restored aggregate was below it, so an addition reached the cap and the
\* value stayed there.
C33_Witness ==
    /\ pc = "api"
    /\ lastOp.op = "close"
    /\ lastOp.result = Ok
    /\ now = 0
    /\ tracker[1].root[SatPath].aggregate_time = U64_MAX
    /\ Len(tracker[1].root[SatPath].instances) = 1

\* An unfocus at clock 0 has left tab 1 Inactive with the time_active 2 of
\* the file, and tab 2 is still Active since the clock's value 2: the clock
\* has stepped back and the unfocus added nothing.
C33_WitnessClockBack ==
    /\ pc = "api"
    /\ lastOp.op = "unfocus"
    /\ lastOp.result = Ok
    /\ lastOp.tab_id = 1
    /\ now = 0
    /\ Len(tracker[1].root[SatPath].instances) = 2
    /\ tracker[1].root[SatPath].instances[1] =
          [tab_id |-> 1, time_active |-> 2, last_opened |-> None]
    /\ tracker[1].root[SatPath].instances[2].last_opened = Some(2)

\* A sweep at the last clock value has left the aggregate at the largest
\* value with both instances Active and their time_active 0.
C33_WitnessSweep ==
    /\ pc = "api"
    /\ lastOp.op = "report"
    /\ now = U64_MAX
    /\ tracker[1].root[SatPath].aggregate_time = U64_MAX
    /\ Len(tracker[1].root[SatPath].instances) = 2
    /\ \A i \in 1..2 :
          /\ tracker[1].root[SatPath].instances[i].time_active = 0
          /\ tracker[1].root[SatPath].instances[i].last_opened = Some(U64_MAX)

----------------------------------------------------------------------------
(* The loop on well-formed input (specification LiveSpec): streams of      *)
(* requests that decode, followed by the end of the input; every write to  *)
(* the output succeeds. run is sequential code whose only suspension point *)
(* is the read, and the stream delivers every frame and then its end, so   *)
(* a loop waiting in read_message eventually has it return (weak fairness  *)
(* on the read; what the iteration then does is the step of LiveNext).     *)

\* A frame whose payload is whole and decodes to a request.
WellFormed(frame) ==
    /\ frame.prefix = 4
    /\ frame.len >= 1
    /\ frame.len <= MAX_MESSAGE_SIZE
    /\ frame.avail = frame.len
    /\ frame.body # None

LiveInit ==
    /\ LoopInit
    /\ \A i \in 1..Len(stdin.frames) : WellFormed(stdin.frames[i])

LiveNext ==
    \/ \E o \in SaveOutcomes : LoopDispatch(o, TRUE)
    \/ \E o \in SaveOutcomes : LoopEndOfFile(o)

\* read_message returns in an iteration of the loop: the stream is one
\* frame, or its end, further.
LoopIteration ==
    /\ pc = "read"
    /\ stdin' = Advance(stdin, read_message(stdin))

LiveSpec == LiveInit /\ [][LiveNext]_vars /\ WF_stdin(LoopIteration)

----------------------------------------------------------------------------
(* Properties of the loop on well-formed input (specification LiveSpec) *)

\* The output holds one frame per request of the input, in the input's
\* order, each with its request's id.
AllAnswered ==
    /\ Len(stdout) = Len(stdin.frames)
    /\ \A i \in 1..Len(stdin.frames) : stdout[i].id = stdin.frames[i].body[1].id

\* The loop has returned from the UnexpectedEof arm, read at the end of the
\* input, with the slot Empty.
TerminatedAtEof ==
    /\ pc = "done"
    /\ lastOp.op = "Eof"
    /\ stdin.pos = Len(stdin.frames) + 1
    /\ tracker = None

\* C34: on a stream of finitely many well-formed requests followed by a
\* clean end of the input, with every write succeeding, the loop eventually
\* has answered every request and returned with the slot Empty, and it stays
\* so; and whenever the loop has ended, it ended at the end of the input
\* with every request answered, so it never stops reading before that.
C34_AnswersAllThenTerminates ==
    /\ <>[](TerminatedAtEof /\ AllAnswered)
    /\ [](pc = "done" => (TerminatedAtEof /\ AllAnswered))
    /\ [](Len(stdout) <= stdin.pos)

\* Three requests (Start of "work", a focus, Stop) were answered in order,
\* all with success, then the end of the input was read: the loop has
\* returned with the slot Empty and the session's file on disk.
C34_Witness ==
    /\ TerminatedAtEof
    /\ AllAnswered
    /\ Len(stdin.frames) = 3
    /\ stdin.frames[1].body[1].action = "Start"
    /\ stdin.frames[2].body[1].action = "TabFocused"
    /\ stdin.frames[3].body[1].action = "Stop"
    /\ \A i \in 1..3 : stdout[i].id = i /\ stdout[i].success
    /\ NameWork \in DOMAIN disk.files

\* The same with the session still Active when the input ended: the
\* UnexpectedEof arm emptied the slot and saved the session.
C34_WitnessActive ==
    /\ TerminatedAtEof
    /\ AllAnswered
    /\ Len(stdin.frames) = 2
    /\ stdin.frames[1].body[1].action = "Start"
    /\ stdin.frames[2].body[1].action = "TabFocused"
    /\ \A i \in 1..2 : stdout[i].success
    /\ NameWork \in DOMAIN disk.files

====
